---- MODULE Spec2Model ----
(***************************************************************************)
(* A model of the citation aggregation pipeline of Who-Cited-Me.py:        *)
(*   - merge_citations (cross-source merge / deduplication),               *)
(*   - normalize_doi   (identifier normalizer),                            *)
(*   - make_request / make_text_request (resilient fetcher),               *)
(*   - main, process_single_doi, get_citations_from_openalex,              *)
(*     get_citations_from_opencitations, enrich_citation_metadata          *)
(*     (orchestrator, source adapters, enrichment),                        *)
(*   - read_dois_from_crossref_depositor_report (identifier discovery).    *)
(* Each component has its own specification (SpecMerge, SpecNormalize,     *)
(* SpecVariants, SpecFetch, SpecPipeline, SpecReport); the variables of    *)
(* the other components stay at their idle values.                         *)
(*                                                                         *)
(* Text is modelled as a sequence of code points (Python str), so that     *)
(* percent-decoding, case folding, stripping and the regular expression    *)
(* are computed character by character as the code computes them.          *)
(***************************************************************************)
EXTENDS Integers, Sequences, FiniteSets, TLC

VARIABLES
    \* merge_citations
    openalex_citations,      \* first argument
    opencitations_citations, \* second argument
    merged,                  \* the OrderedDict, as the sequence of its values
    merge_i,                 \* records consumed so far (both lists)
    merge_pc,                \* "idle" | "adding" | "returned"
    merge_result,            \* list(merged.values()) once returned
    \* normalize_doi
    raw,                     \* the raw input
    variant,                 \* a second raw input, a variant of raw
    norm_pc,                 \* "idle" | "start" | "normalized" | "done" | "compared"
    canon,                   \* normalize_doi(raw)
    canon2,                  \* normalize_doi(canon)
    variant_canon,           \* normalize_doi(variant)
    \* make_request / make_text_request
    fetch_kind,              \* "json" (make_request) | "text" (make_text_request)
    attempt,                 \* loop variable of  for attempt in range(retry)
    fetch_pc,                \* "idle" | "loop" | "returned" | "raised"
    fetch_result,            \* the returned value
    log,                     \* what the fetch did: requests and sleeps, in order
    \* main and process_single_doi
    source_kind,             \* where the identifiers come from: "csv" | "pubid"
    unique_dois,             \* the identifiers to query, in their order
    world,                   \* what the sources answer, per queried identifier
    results,                 \* the OrderedDict, as a sequence of its items
    writes,                  \* the assignments results[doi] = ... made so far
    main_i,                  \* identifiers taken from unique_dois so far
    main_pc,                 \* "idle" | "loop" | "reporting" | "saved" | "interrupted"
    proc_pc,                 \* where process_single_doi stands
    cursor,                  \* get_citations_from_openalex: cursor
    page_count,              \* get_citations_from_openalex: page_count
    page_fetches,            \* page requests of the current identifier
    merged_citations,        \* process_single_doi: merged_citations
    enrich_i,                \* enrich_citation_metadata: records gone through
    last_call,               \* the latest of: a fetch returned, a delay was slept
    prev_call,               \* last_call at the time the latest fetch was issued
    last_fetch,              \* which fetch was issued latest
    throttled,               \* a fetch of the current identifier met a 429
    \* read_dois_from_crossref_depositor_report
    served,                  \* what the report endpoint serves, attempt by attempt
    text,                    \* text, as make_text_request returned it
    lines,                   \* text.splitlines()
    line_i,                  \* lines gone through
    report_dois,             \* dois
    report_pc                \* "idle" | "fetch" | "lines" | "returned"

merge_vars == <<openalex_citations, opencitations_citations, merged, merge_i,
                merge_pc, merge_result>>
norm_vars  == <<raw, variant, norm_pc, canon, canon2, variant_canon>>
fetch_vars == <<fetch_kind, attempt, fetch_pc, fetch_result, log>>
pipe_vars  == <<source_kind, unique_dois, world, results, writes, main_i, main_pc,
                proc_pc, cursor, page_count, page_fetches, merged_citations,
                enrich_i, last_call, prev_call, last_fetch, throttled>>
report_vars == <<served, text, lines, line_i, report_dois, report_pc>>
vars == <<merge_vars, norm_vars, fetch_vars, pipe_vars, report_vars>>

\* Python's None, for a value that is otherwise a sequence.
None == <<-1>>

-----------------------------------------------------------------------------
(* Idle values of each component.                                          *)

MergeIdle ==
    /\ openalex_citations = <<>>
    /\ opencitations_citations = <<>>
    /\ merged = <<>>
    /\ merge_i = 0
    /\ merge_pc = "idle"
    /\ merge_result = <<>>

NormIdle ==
    /\ raw = <<>>
    /\ variant = <<>>
    /\ norm_pc = "idle"
    /\ canon = None
    /\ canon2 = None
    /\ variant_canon = None

FetchIdle ==
    /\ fetch_kind = "json"
    /\ attempt = 0
    /\ fetch_pc = "idle"
    /\ fetch_result = None
    /\ log = <<>>

PipeIdle ==
    /\ source_kind = "csv"
    /\ unique_dois = <<>>
    /\ world = <<>>
    /\ results = <<>>
    /\ writes = <<>>
    /\ main_i = 0
    /\ main_pc = "idle"
    /\ proc_pc = "idle"
    /\ cursor = None
    /\ page_count = 0
    /\ page_fetches = 0
    /\ merged_citations = <<>>
    /\ enrich_i = 0
    /\ last_call = "none"
    /\ prev_call = "none"
    /\ last_fetch = "none"
    /\ throttled = FALSE

ReportIdle ==
    /\ served = <<>>
    /\ text = None
    /\ lines = <<>>
    /\ line_i = 0
    /\ report_dois = <<>>
    /\ report_pc = "idle"

-----------------------------------------------------------------------------
(* merge_citations                                                         *)

\* Bounds of the merge inputs.
NumDois == 3
MaxList == 2

Dois == 1 .. NumDois

\* A citation record as the adapters build it (a dict with these five keys).
Citation(d, t, a, y, s) ==
    [doi |-> d, title |-> t, authors |-> a, year |-> y, source |-> s]

HasKey(m, d) == \E k \in DOMAIN m : m[k].doi = d

\* Mutants of Backfill: one that lets a later title replace an earlier one,
\* one that forgets the year.
Backfill_Overwrite(existing, citation) ==
    [existing EXCEPT
        !.title   = IF citation.title # "" THEN citation.title ELSE @,
        !.authors = IF existing.authors = <<>> /\ citation.authors # <<>>
                    THEN citation.authors ELSE @,
        !.year    = IF existing.year = "" /\ citation.year # ""
                    THEN citation.year ELSE @]

Backfill_NoYear(existing, citation) ==
    [existing EXCEPT
        !.title   = IF existing.title = "" /\ citation.title # ""
                    THEN citation.title ELSE @,
        !.authors = IF existing.authors = <<>> /\ citation.authors # <<>>
                    THEN citation.authors ELSE @]

\* The else-branch of add_to_merged: fill the empty fields of the existing
\* record from the new one, each field on its own; source is not touched.
Backfill(existing, citation) ==
    [existing EXCEPT
        !.title   = IF existing.title = "" /\ citation.title # ""
                    THEN citation.title ELSE @,
        !.authors = IF existing.authors = <<>> /\ citation.authors # <<>>
                    THEN citation.authors ELSE @,
        !.year    = IF existing.year = "" /\ citation.year # ""
                    THEN citation.year ELSE @]

\* Mutants of add_to_merged: one without the membership test, one that moves
\* a record met again to the end of the mapping.
add_to_merged_NoDedup(m, citation) == Append(m, citation)

add_to_merged_MoveToEnd(m, citation) ==
    IF ~HasKey(m, citation.doi)
    THEN Append(m, citation)
    ELSE LET k == CHOOSE j \in DOMAIN m : m[j].doi = citation.doi
         IN Append(SubSeq(m, 1, k - 1) \o SubSeq(m, k + 1, Len(m)),
                   Backfill(m[k], citation))

\* One iteration of the loop of add_to_merged.
add_to_merged(m, citation) ==
    IF ~HasKey(m, citation.doi)
    THEN Append(m, citation)
    ELSE [k \in DOMAIN m |->
            IF m[k].doi = citation.doi THEN Backfill(m[k], citation) ELSE m[k]]

RECURSIVE AddAll(_, _)
AddAll(m, citations_list) ==
    IF citations_list = <<>> THEN m
    ELSE AddAll(add_to_merged(m, Head(citations_list)), Tail(citations_list))

\* merge_citations as a function of its two arguments.
merge_citations(l1, l2) == AddAll(AddAll(<<>>, l1), l2)

\* The field values the inputs are drawn from.
Titles  == {"", "X", "Y"}
Authors == {<<>>, <<"Ann">>, <<"Bob">>}
Years   == {"", "2020", "2021"}

\* Any record, tagged with the adapter it comes from.
AnyCitation(s) ==
    {Citation(d, t, a, y, s) : d \in Dois, t \in Titles, a \in Authors, y \in Years}

\* Records as get_citations_from_openalex builds them: fully described, or
\* with nothing but a doi.
OpenAlexCitations ==
    {Citation(d, "X", <<"Ann">>, "2020", "OpenAlex") : d \in Dois}
        \cup {Citation(d, "", <<>>, "", "OpenAlex") : d \in Dois}

\* Records as get_citations_from_opencitations builds them: a doi only.
OpenCitationsCitations == {Citation(d, "", <<>>, "", "OpenCitations") : d \in Dois}

SeqsUpTo(S, n) == UNION {[1 .. k -> S] : k \in 0 .. n}

\* End-to-end scenario 1 of the specification: OpenAlex returns two citing
\* works (one fully described, one with a doi only), the citation index the
\* same two and one more.
Scenario1OpenAlex ==
    << Citation(1, "X", <<"Ann">>, "2020", "OpenAlex"),
       Citation(2, "", <<>>, "", "OpenAlex") >>
Scenario1OpenCitations ==
    << Citation(1, "", <<>>, "", "OpenCitations"),
       Citation(2, "", <<>>, "", "OpenCitations"),
       Citation(3, "", <<>>, "", "OpenCitations") >>

\* The argument pairs of merge_citations: one arbitrary record against
\* another, lists of adapter-built records, and scenario 1.
MergeInputs ==
    {<<(<<a>>), (<<b>>)>> : a \in AnyCitation("OpenAlex"),
                            b \in AnyCitation("OpenCitations")}
        \cup (SeqsUpTo(OpenAlexCitations, MaxList)
                \X SeqsUpTo(OpenCitationsCitations, MaxList))
        \cup {<<Scenario1OpenAlex, Scenario1OpenCitations>>}

MergeInit ==
    /\ \E in \in MergeInputs :
          /\ openalex_citations = in[1]
          /\ opencitations_citations = in[2]
    /\ merged = <<>>
    /\ merge_i = 0
    /\ merge_pc = "adding"
    /\ merge_result = <<>>
    /\ NormIdle
    /\ FetchIdle
    /\ PipeIdle
    /\ ReportIdle

\* add_to_merged(openalex_citations): one record of the first list.
AddOpenAlex ==
    /\ merge_pc = "adding"
    /\ merge_i < Len(openalex_citations)
    /\ merged' = add_to_merged(merged, openalex_citations[merge_i + 1])
    /\ merge_i' = merge_i + 1
    /\ UNCHANGED <<openalex_citations, opencitations_citations, merge_pc,
                   merge_result, norm_vars, fetch_vars, pipe_vars, report_vars>>

\* add_to_merged(opencitations_citations): one record of the second list.
AddOpenCitations ==
    /\ merge_pc = "adding"
    /\ merge_i >= Len(openalex_citations)
    /\ merge_i < Len(openalex_citations) + Len(opencitations_citations)
    /\ merged' = add_to_merged(merged,
                    opencitations_citations[merge_i - Len(openalex_citations) + 1])
    /\ merge_i' = merge_i + 1
    /\ UNCHANGED <<openalex_citations, opencitations_citations, merge_pc,
                   merge_result, norm_vars, fetch_vars, pipe_vars, report_vars>>

\* return list(merged.values())
MergeReturn ==
    /\ merge_pc = "adding"
    /\ merge_i = Len(openalex_citations) + Len(opencitations_citations)
    /\ merge_result' = merged
    /\ merge_pc' = "returned"
    /\ UNCHANGED <<openalex_citations, opencitations_citations, merged, merge_i,
                   norm_vars, fetch_vars, pipe_vars, report_vars>>

MergeNext == AddOpenAlex \/ AddOpenCitations \/ MergeReturn

SpecMerge == MergeInit /\ [][MergeNext]_vars

-----------------------------------------------------------------------------
(* Claims about merge_citations.                                           *)

DoiSeq(m) == [k \in DOMAIN m |-> m[k].doi]

NoDuplicateDoi(m) == \A j, k \in DOMAIN m : m[j].doi = m[k].doi => j = k

RepeatsDoi(l) == \E j, k \in DOMAIN l : j # k /\ l[j].doi = l[k].doi

Overlap(l1, l2) == \E j \in DOMAIN l1 : \E k \in DOMAIN l2 : l1[j].doi = l2[k].doi

\* C1: whatever the two argument lists (lists that repeat a doi, lists that
\* overlap), the mapping never holds two records of one doi, and neither does
\* the list merge_citations returns.
C1_NoDuplicateDoi ==
    /\ NoDuplicateDoi(merged)
    /\ merge_pc = "returned" => NoDuplicateDoi(merge_result)

\* A merge has returned for a first list that repeats a doi and overlaps the
\* second one.
C1_Witness ==
    /\ merge_pc = "returned"
    /\ RepeatsDoi(openalex_citations)
    /\ Overlap(openalex_citations, opencitations_citations)
    /\ Len(merge_result) < Len(openalex_citations) + Len(opencitations_citations)

\* C2: a step of the merge leaves every record already in the mapping at its
\* place, with its source tag and with every non-empty title, authors and
\* year unchanged; only an empty field may change.
C2_BackfillOnlyEmpty ==
    [][\A k \in DOMAIN merged :
          /\ k \in DOMAIN merged'
          /\ merged'[k].doi = merged[k].doi
          /\ merged'[k].source = merged[k].source
          /\ merged[k].title # "" => merged'[k].title = merged[k].title
          /\ merged[k].authors # <<>> => merged'[k].authors = merged[k].authors
          /\ merged[k].year # "" => merged'[k].year = merged[k].year]_vars

\* Title "X" was seen first and a later record of the same doi carried "Y":
\* the returned record has title "X" and the first record's source tag.
C2_Witness ==
    /\ merge_pc = "returned"
    /\ Len(openalex_citations) = 1
    /\ Len(opencitations_citations) = 1
    /\ openalex_citations[1].doi = opencitations_citations[1].doi
    /\ openalex_citations[1].title = "X"
    /\ opencitations_citations[1].title = "Y"
    /\ opencitations_citations[1].year # ""
    /\ openalex_citations[1].year = ""
    /\ Len(merge_result) = 1
    /\ merge_result[1].title = "X"
    /\ merge_result[1].year = opencitations_citations[1].year
    /\ merge_result[1].source = "OpenAlex"

\* The case of C3: one record per list, the same doi, the first (A) with a
\* title and no year, the second (B) with a year and no title.
C3_Case ==
    /\ merge_pc = "returned"
    /\ Len(openalex_citations) = 1
    /\ Len(opencitations_citations) = 1
    /\ openalex_citations[1].doi = opencitations_citations[1].doi
    /\ openalex_citations[1].title # ""
    /\ openalex_citations[1].year = ""
    /\ opencitations_citations[1].title = ""
    /\ opencitations_citations[1].year # ""

\* C3 (as amended): merging A then B and merging B then A both give one
\* record with A's title and B's year; its source tag is that of the record
\* inserted first; its authors are the same in both orders unless A and B both
\* carry authors and they differ, and then each order keeps the authors of the
\* record inserted first.
C3_CoverageNotPrecedence ==
    C3_Case =>
        LET a  == openalex_citations[1]
            b  == opencitations_citations[1]
            ab == merge_result
            ba == merge_citations(opencitations_citations, openalex_citations)
        IN /\ Len(ab) = 1 /\ Len(ba) = 1
           /\ ab[1].title = a.title /\ ba[1].title = a.title
           /\ ab[1].year = b.year /\ ba[1].year = b.year
           /\ ab[1].source = a.source /\ ba[1].source = b.source
           /\ (a.authors = <<>> \/ b.authors = <<>> \/ a.authors = b.authors)
                 => ab[1].authors = ba[1].authors
           /\ (a.authors # <<>> /\ b.authors # <<>>)
                 => (ab[1].authors = a.authors /\ ba[1].authors = b.authors)

\* The case of C3 with authors on one side only: both orders agree on them.
C3_Witness ==
    /\ C3_Case
    /\ openalex_citations[1].authors = <<>>
    /\ opencitations_citations[1].authors = <<"Bob">>
    /\ merge_result[1].authors = <<"Bob">>
    /\ merge_result[1].title = openalex_citations[1].title
    /\ merge_result[1].year = opencitations_citations[1].year

\* C3 as claimed: in that case the two orders give records that differ in the
\* source tag only.
C3_Original ==
    C3_Case =>
        LET ab == merge_result
            ba == merge_citations(opencitations_citations, openalex_citations)
        IN /\ Len(ab) = 1 /\ Len(ba) = 1
           /\ ab[1].title # "" /\ ab[1].year # ""
           /\ [ab[1] EXCEPT !.source = ""] = [ba[1] EXCEPT !.source = ""]
           /\ ab[1].source = openalex_citations[1].source
           /\ ba[1].source = opencitations_citations[1].source

\* The distinct elements of a sequence, in the order of their first occurrence.
RECURSIVE FirstSeen(_)
FirstSeen(s) ==
    IF s = <<>> THEN <<>>
    ELSE LET init == FirstSeen(SubSeq(s, 1, Len(s) - 1))
             last == s[Len(s)]
         IN IF \E k \in DOMAIN init : init[k] = last THEN init ELSE Append(init, last)

\* The first record of doi d in a list.
FirstOf(l, d) == l[CHOOSE k \in DOMAIN l : l[k].doi = d /\ \A j \in 1 .. k - 1 : l[j].doi # d]

\* C4: at every step the mapping lists the distinct dois consumed so far, once
\* each, in the order of their first occurrence in the concatenation of the
\* two lists (so no step moves a record), and so does the returned list; in
\* scenario 1 the result has 3 records, the two overlapping ones first, with
\* OpenAlex's tag and OpenAlex's fields wherever OpenAlex gave one.
C4_FirstSeenOrder ==
    LET all == openalex_citations \o opencitations_citations
    IN /\ DoiSeq(merged) = FirstSeen(DoiSeq(SubSeq(all, 1, merge_i)))
       /\ merge_pc = "returned" =>
             /\ DoiSeq(merge_result) = FirstSeen(DoiSeq(all))
             /\ \A k \in DOMAIN merge_result :
                   LET first == FirstOf(all, merge_result[k].doi)
                   IN /\ merge_result[k].source = first.source
                      /\ first.title # "" => merge_result[k].title = first.title
                      /\ first.authors # <<>> => merge_result[k].authors = first.authors
                      /\ first.year # "" => merge_result[k].year = first.year
       /\ (/\ merge_pc = "returned"
           /\ openalex_citations = Scenario1OpenAlex
           /\ opencitations_citations = Scenario1OpenCitations)
             => merge_result = << Scenario1OpenAlex[1], Scenario1OpenAlex[2],
                                  Scenario1OpenCitations[3] >>

\* Scenario 1 has been merged: 3 records from 5.
C4_Witness ==
    /\ merge_pc = "returned"
    /\ openalex_citations = Scenario1OpenAlex
    /\ opencitations_citations = Scenario1OpenCitations
    /\ Len(merge_result) = 3
    /\ DoiSeq(merge_result) = <<1, 2, 3>>

-----------------------------------------------------------------------------
(* normalize_doi.  A str is a sequence of code points.                     *)

IsHexDigit(c) == c \in (48 .. 57) \cup (65 .. 70) \cup (97 .. 102)

HexValue(c) ==
    IF c \in 48 .. 57 THEN c - 48
    ELSE IF c \in 65 .. 70 THEN c - 55
    ELSE c - 87

\* bytes.decode('utf-8', errors='replace') of one decoded byte: an ASCII byte
\* is its character; a byte from 0x80 on that starts no valid UTF-8 sequence
\* becomes U+FFFD (the inputs below never form a valid multi-byte sequence).
DecodeByte(b) == IF b < 128 THEN b ELSE 65533

\* urllib.parse.unquote: every '%' followed by two hex digits is replaced by
\* the character of that byte, left to right, in one pass; any other '%'
\* stays as it is.
RECURSIVE unquote(_)
unquote(s) ==
    IF s = <<>> THEN <<>>
    ELSE IF s[1] = 37 /\ Len(s) >= 3 /\ IsHexDigit(s[2]) /\ IsHexDigit(s[3])
         THEN <<DecodeByte(16 * HexValue(s[2]) + HexValue(s[3]))>>
                  \o unquote(SubSeq(s, 4, Len(s)))
         ELSE <<s[1]>> \o unquote(Tail(s))

\* str.isspace() of one character.
IsSpace(c) == c \in (9 .. 13) \cup (28 .. 32) \cup {133, 160}

RECURSIVE lstrip(_)
lstrip(s) == IF s # <<>> /\ IsSpace(s[1]) THEN lstrip(Tail(s)) ELSE s

RECURSIVE rstrip(_)
rstrip(s) ==
    IF s # <<>> /\ IsSpace(s[Len(s)]) THEN rstrip(SubSeq(s, 1, Len(s) - 1)) ELSE s

\* str.strip()
strip(s) == rstrip(lstrip(s))

\* str.lower() and str.upper()
lower(s) == [k \in DOMAIN s |-> IF s[k] \in 65 .. 90 THEN s[k] + 32 ELSE s[k]]
upper(s) == [k \in DOMAIN s |-> IF s[k] \in 97 .. 122 THEN s[k] - 32 ELSE s[k]]

\* str.startswith
startswith(s, p) == Len(s) >= Len(p) /\ SubSeq(s, 1, Len(p)) = p

\* The list  prefixes  of normalize_doi, in its order.
prefixes ==
    << <<104, 116, 116, 112, 115, 58, 47, 47, 100, 111, 105, 46, 111, 114, 103, 47>>,
          \* "https://doi.org/"
       <<104, 116, 116, 112, 58, 47, 47, 100, 111, 105, 46, 111, 114, 103, 47>>,
          \* "http://doi.org/"
       <<104, 116, 116, 112, 115, 58, 47, 47, 100, 120, 46, 100, 111, 105, 46, 111,
         114, 103, 47>>,
          \* "https://dx.doi.org/"
       <<104, 116, 116, 112, 58, 47, 47, 100, 120, 46, 100, 111, 105, 46, 111, 114,
         103, 47>>,
          \* "http://dx.doi.org/"
       <<100, 111, 105, 58>> >>
          \* "doi:"

\* A mutant of remove_prefix: the prefix is looked for in doi itself, not in
\* doi.lower().
remove_prefix_CaseSensitive(doi) ==
    IF \E k \in DOMAIN prefixes : startswith(doi, prefixes[k])
    THEN LET k == CHOOSE j \in DOMAIN prefixes :
                     /\ startswith(doi, prefixes[j])
                     /\ \A i \in 1 .. j - 1 : ~startswith(doi, prefixes[i])
         IN SubSeq(doi, Len(prefixes[k]) + 1, Len(doi))
    ELSE doi

\* The loop over  prefixes : the first prefix that doi.lower() starts with is
\* cut from doi (whose letter case is kept), and the loop breaks.
remove_prefix(doi) ==
    LET doi_lower == lower(doi)
    IN IF \E k \in DOMAIN prefixes : startswith(doi_lower, prefixes[k])
       THEN LET k == CHOOSE j \in DOMAIN prefixes :
                        /\ startswith(doi_lower, prefixes[j])
                        /\ \A i \in 1 .. j - 1 : ~startswith(doi_lower, prefixes[i])
            IN SubSeq(doi, Len(prefixes[k]) + 1, Len(doi))
       ELSE doi

\* The number of decimal digits s starts with.
RECURSIVE DigitRun(_)
DigitRun(s) == IF s # <<>> /\ s[1] \in 48 .. 57 THEN 1 + DigitRun(Tail(s)) ELSE 0

\* re.match(r'^10\.\d{4,}/.+$', doi, re.IGNORECASE): "10.", then the digits
\* (four at least; the run is followed by '/', so it is taken whole), then
\* '/', then one character at least and no line feed up to the end, where $
\* also accepts one final line feed.
re_match(doi) ==
    /\ Len(doi) >= 3
    /\ doi[1] = 49 /\ doi[2] = 48 /\ doi[3] = 46
    /\ LET n    == DigitRun(SubSeq(doi, 4, Len(doi)))
           rest == SubSeq(doi, n + 5, Len(doi))
           body == IF rest # <<>> /\ rest[Len(rest)] = 10
                   THEN SubSeq(rest, 1, Len(rest) - 1) ELSE rest
       IN /\ n >= 4
          /\ Len(doi) >= n + 4
          /\ doi[n + 4] = 47
          /\ \/ rest # <<>> /\ \A k \in DOMAIN rest : rest[k] # 10
             \/ body # <<>> /\ \A k \in DOMAIN body : body[k] # 10

\* A mutant of normalize_doi: the match is returned as it is, not lowered.
normalize_doi_NoLower(doi) ==
    IF doi = <<>> \/ doi = None THEN None
    ELSE LET d == strip(remove_prefix(strip(unquote(doi))))
         IN IF re_match(d) THEN d ELSE None

normalize_doi(doi) ==
    IF doi = <<>> \/ doi = None THEN None
    ELSE LET d == strip(remove_prefix(strip(unquote(doi))))
         IN IF re_match(d) THEN lower(d) ELSE None

-----------------------------------------------------------------------------
(* The raw inputs normalize_doi is applied to.                             *)

\* Bound: the number of tokens of a generated suffix.
MaxTokens == 3

Flatten(ss) ==
    LET RECURSIVE F(_)
        F(k) == IF k > Len(ss) THEN <<>> ELSE ss[k] \o F(k + 1)
    IN F(1)

\* What a suffix is made of: letters, a blank, a bare '%', percent escapes
\* and the hex pairs that turn a decoded '%' into an escape again.
Tokens ==
    { <<97>>,            \* "a"
      <<65>>,            \* "A"
      <<32>>,            \* " "
      <<37>>,            \* "%"
      <<37, 52, 49>>,    \* "%41"  (A)
      <<37, 50, 48>>,    \* "%20"  (blank)
      <<37, 50, 53>>,    \* "%25"  (%)
      <<52, 49>>,        \* "41"
      <<50, 48>>,        \* "20"
      <<50, 53>> }       \* "25"

Suffixes == {Flatten(ts) : ts \in SeqsUpTo(Tokens, MaxTokens)}

\* What stands before the '/': registrants of 4 and 5 digits, and ones that
\* are too short or not digits.
Registrants ==
    { <<49, 48, 46, 49, 50, 51, 52>>,        \* "10.1234"
      <<49, 48, 46, 49, 50, 51, 52, 53>>,    \* "10.12345"
      <<49, 48, 46, 49, 50, 51>>,            \* "10.123"
      <<49, 48, 46, 97, 98, 99>>,            \* "10.abc"
      <<49, 48, 46, 49>> }                   \* "10.1"

capitalize(s) == [k \in DOMAIN s |-> IF k = 1 THEN upper(s)[1] ELSE s[k]]

\* Every known prefix in lower case, in upper case and capitalized.
PrefixForms ==
    UNION {{prefixes[k], upper(prefixes[k]), capitalize(prefixes[k])} :
             k \in DOMAIN prefixes}

\* The inputs the specification names as invalid.
Str_Empty     == <<>>
Str_NotADoi   == <<110, 111, 116, 45, 97, 45, 100, 111, 105>>   \* "not-a-doi"
Str_10abc_x   == <<49, 48, 46, 97, 98, 99, 47, 120>>            \* "10.abc/x"

\* Identifiers with a generated suffix; identifiers with blanks around them, a
\* prefix (once or twice), a plain or an escaped '/'; the invalid examples.
NormalizeInputs ==
    {r \o <<47>> \o x : r \in Registrants, x \in Suffixes}
      \cup {lead \o p \o mid \o r \o sep \o x \o trail :
              lead  \in {<<>>, <<32>>, <<37, 50, 48>>},
              p     \in PrefixForms \cup {<<>>, <<100, 111, 105, 58, 68, 79, 73, 58>>},
              mid   \in {<<>>, <<32>>},
              r     \in Registrants,
              sep   \in {<<47>>, <<37, 50, 70>>},
              x     \in {<<65, 98, 67>>, <<120>>},
              trail \in {<<>>, <<10>>}}
      \cup {Str_Empty, Str_NotADoi, Str_10abc_x}

NormalizeInit ==
    /\ raw \in NormalizeInputs
    /\ variant = raw
    /\ norm_pc = "start"
    /\ canon = None
    /\ canon2 = None
    /\ variant_canon = None
    /\ MergeIdle
    /\ FetchIdle
    /\ PipeIdle
    /\ ReportIdle

\* normalize_doi(raw)
Normalize ==
    /\ norm_pc = "start"
    /\ canon' = normalize_doi(raw)
    /\ norm_pc' = "normalized"
    /\ UNCHANGED <<raw, variant, canon2, variant_canon, merge_vars, fetch_vars, pipe_vars, report_vars>>

\* normalize_doi applied to a canonical identifier it returned.
Renormalize ==
    /\ norm_pc = "normalized"
    /\ canon # None
    /\ canon2' = normalize_doi(canon)
    /\ norm_pc' = "done"
    /\ UNCHANGED <<raw, variant, canon, variant_canon, merge_vars, fetch_vars, pipe_vars, report_vars>>

NormalizeNext == Normalize \/ Renormalize

SpecNormalize == NormalizeInit /\ [][NormalizeNext]_vars

-----------------------------------------------------------------------------
(* Raw inputs that differ only in prefix, letter case or percent-encoding. *)

HexDigit(v, up) ==
    IF v < 10 THEN 48 + v ELSE IF up THEN 55 + v ELSE 87 + v

\* Position i of s belongs to a percent escape ('%' and two hex digits).
InEscape(s, i) ==
    \E j \in {i - 2, i - 1, i} :
        /\ j >= 1 /\ j + 2 <= Len(s)
        /\ s[j] = 37 /\ IsHexDigit(s[j + 1]) /\ IsHexDigit(s[j + 2])

\* s with the character at position i written as its percent escape, the hex
\* digits in upper or in lower case.
EncodeAt(s, i, up) ==
    SubSeq(s, 1, i - 1)
        \o <<37, HexDigit(s[i] \div 16, up), HexDigit(s[i] % 16, up)>>
        \o SubSeq(s, i + 1, Len(s))

\* Identifiers without a prefix, as they may be written.
Str_10_1_AbC     == <<49, 48, 46, 49, 47, 65, 98, 67>>               \* "10.1/AbC"
Str_10_1_abc     == <<49, 48, 46, 49, 47, 97, 98, 99>>               \* "10.1/abc"
Str_10_1234_AbC  == <<49, 48, 46, 49, 50, 51, 52, 47, 65, 98, 67>>   \* "10.1234/AbC"
Str_10_1234_abc  == <<49, 48, 46, 49, 50, 51, 52, 47, 97, 98, 99>>   \* "10.1234/abc"
Str_https        == prefixes[1]                                      \* "https://doi.org/"
Str_DOI          == upper(prefixes[5])                               \* "DOI:"

Bases ==
    { Str_10_1_AbC, Str_10_1234_AbC, Str_10abc_x,
      <<49, 48, 46, 49, 50, 51, 52, 47, 97, 32, 98>>,                \* "10.1234/a b"
      <<49, 48, 46, 49, 50, 51, 52, 53, 47, 120, 37, 121>>,          \* "10.12345/x%y"
      <<49, 48, 46, 49, 50, 51, 52, 47, 97, 37, 52, 49>>,            \* "10.1234/a%41"
      <<49, 48, 46, 49, 50, 51, 52, 47, 37, 37, 52, 49>> }           \* "10.1234/%%41"

\* r in another letter case, behind a known prefix in any letter case, with
\* at most one character that is not part of an escape percent-encoded.
Variants(r) ==
    LET cased    == {r, lower(r), upper(r)}
        prefixed == {p \o c : p \in PrefixForms \cup {<<>>}, c \in cased}
    IN prefixed
         \cup {EncodeAt(v, i, up) :
                 <<v, i, up>> \in {w \in prefixed \X (1 .. Len(r) + 19) \X BOOLEAN :
                                     w[2] <= Len(w[1]) /\ ~InEscape(w[1], w[2])}}

VariantsInit ==
    /\ raw \in Bases
    /\ variant \in Variants(raw)
    /\ norm_pc = "start"
    /\ canon = None
    /\ canon2 = None
    /\ variant_canon = None
    /\ MergeIdle
    /\ FetchIdle
    /\ PipeIdle
    /\ ReportIdle

\* normalize_doi(variant)
NormalizeVariant ==
    /\ norm_pc = "normalized"
    /\ variant_canon' = normalize_doi(variant)
    /\ norm_pc' = "compared"
    /\ UNCHANGED <<raw, variant, canon, canon2, merge_vars, fetch_vars, pipe_vars, report_vars>>

VariantsNext == Normalize \/ NormalizeVariant

SpecVariants == VariantsInit /\ [][VariantsNext]_vars

-----------------------------------------------------------------------------
(* Claims about normalize_doi.                                             *)

IsLowerCase(s) == \A k \in DOMAIN s : s[k] \notin 65 .. 90

\* s is "10.", four digits or more, "/", and a non-empty rest of one line.
MatchesDoiPattern(s) ==
    \E n \in 4 .. Len(s) :
        /\ Len(s) >= n + 5
        /\ s[1] = 49 /\ s[2] = 48 /\ s[3] = 46
        /\ \A k \in 4 .. n + 3 : s[k] \in 48 .. 57
        /\ s[n + 4] = 47
        /\ \A k \in n + 5 .. Len(s) : s[k] # 10

\* C5: a canonical identifier returned by normalize_doi is returned unchanged
\* when it is normalized again.
C5_Idempotent ==
    (norm_pc = "done" /\ canon # None) => canon2 = canon

\* C6 (as amended): a raw input and any variant of it (a known prefix in any
\* letter case, another letter case, a character percent-encoded) normalize to
\* the same value, which is invalid or fully lower case; the three writings
\* of 10.1234/AbC give "10.1234/abc", and those of 10.1/AbC, whose registrant
\* has fewer than four digits, are invalid.
C6_VariantsAgree ==
    norm_pc = "compared" =>
        /\ variant_canon = canon
        /\ canon # None => IsLowerCase(canon)
        /\ raw = Str_10_1234_AbC => canon = Str_10_1234_abc
        /\ raw = Str_10_1_AbC => canon = None

\* "DOI:10.1234/AbC" and "10.1234/AbC" both gave "10.1234/abc".
C6_Witness ==
    /\ norm_pc = "compared"
    /\ raw = Str_10_1234_AbC
    /\ variant = Str_DOI \o Str_10_1234_AbC
    /\ canon = Str_10_1234_abc
    /\ variant_canon = Str_10_1234_abc

\* C6 as claimed: "https://doi.org/10.1/AbC", "DOI:10.1/AbC" and "10.1/abc"
\* all yield the same lower-case canonical identifier.
C6_Original ==
    (/\ norm_pc = "compared"
     /\ raw = Str_10_1_AbC
     /\ variant \in {Str_https \o Str_10_1_AbC, Str_DOI \o Str_10_1_AbC, Str_10_1_abc})
        => /\ variant_canon = canon
           /\ variant_canon # None
           /\ IsLowerCase(variant_canon)
           /\ MatchesDoiPattern(variant_canon)

\* C7: normalize_doi returns None or a non-empty lower-case string of the
\* form 10.<4+ digits>/<rest> without a known prefix and without blanks
\* around it; "", "not-a-doi" and "10.abc/x" give None.
C7_CanonicalOrInvalid ==
    norm_pc \in {"normalized", "done"} =>
        /\ \/ canon = None
           \/ /\ canon # <<>>
              /\ IsLowerCase(canon)
              /\ MatchesDoiPattern(canon)
              /\ \A k \in DOMAIN prefixes : ~startswith(canon, prefixes[k])
              /\ ~IsSpace(canon[1]) /\ ~IsSpace(canon[Len(canon)])
        /\ raw \in {Str_Empty, Str_NotADoi, Str_10abc_x} => canon = None

\* " HTTPS://DOI.ORG/ 10.1234/AbC" gave "10.1234/abc": the blanks and the
\* upper-case prefix are gone, the rest is lower case.
C7_Witness ==
    /\ norm_pc = "normalized"
    /\ raw = <<32>> \o upper(prefixes[1]) \o <<32>> \o Str_10_1234_AbC
    /\ canon = Str_10_1234_abc

-----------------------------------------------------------------------------
(* make_request and make_text_request.                                     *)

RETRY_COUNT == 3

\* Response bodies, as text.
Bodies == { <<123, 125>>,     \* "{}"
            <<91, 93>> }      \* "[]"

\* What one  requests.get  and the decoding of its response can come to:
\* a response with a status code, or an exception raised inside the try block.
\* A 200 whose body is no JSON makes response.json() raise: a
\* requests.exceptions.JSONDecodeError (a RequestException) or, with an older
\* requests, a plain ValueError.  response.text does not raise.
Outcome(st, ex, b) == [status |-> st, exc |-> ex, body |-> b]

Outcomes(kind) ==
    {Outcome(200, "", b) : b \in Bodies}
      \cup {Outcome(st, "", <<>>) : st \in {204, 404, 429, 500}}
      \cup {Outcome(0, ex, <<>>) : ex \in {"Timeout", "ConnectionError"}}
      \cup (IF kind = "json"
            THEN {Outcome(200, ex, <<>>) : ex \in {"JSONDecodeError", "ValueError"}}
            ELSE {})

\* isinstance(exc, cls) for the exception classes met here.  A
\* KeyboardInterrupt is a BaseException, no Exception.
IsInstance(exc, cls) ==
    \/ cls = exc
    \/ cls = "Exception" /\ exc # "KeyboardInterrupt"
    \/ cls = "RequestException" /\ exc \in {"Timeout", "ConnectionError", "JSONDecodeError"}

\* A mutant of Handlers: the clauses without the last one (except Exception).
Handlers_NoCatchAll ==
    << [cls |-> "Timeout", secs |-> 2],
       [cls |-> "RequestException", secs |-> 1] >>

\* The except clauses, in their order, with the sleep of each.
Handlers ==
    << [cls |-> "Timeout", secs |-> 2],
       [cls |-> "RequestException", secs |-> 1],
       [cls |-> "Exception", secs |-> 1] >>

\* A mutant of wait_time: the same pause after every 429.
wait_time_Fixed(k) == 5

\* wait_time = (attempt + 1) * 5
wait_time(k) == (k + 1) * 5

\* What one iteration of the retry loop does with an outcome:
\*   ret    - the function returns (with value),
\*   raised - the exception leaves the function,
\*   secs   - the time.sleep of the iteration (0: none).
Step(r, v, ra, sl) == [ret |-> r, value |-> v, raised |-> ra, secs |-> sl]

OnException(exc) ==
    IF \E k \in DOMAIN Handlers : IsInstance(exc, Handlers[k].cls)
    THEN LET k == CHOOSE j \in DOMAIN Handlers :
                     /\ IsInstance(exc, Handlers[j].cls)
                     /\ \A i \in 1 .. j - 1 : ~IsInstance(exc, Handlers[i].cls)
         IN Step(FALSE, None, FALSE, Handlers[k].secs)
    ELSE Step(FALSE, None, TRUE, 0)

\* A mutant of iteration: a 429 ends the fetch with None.
iteration_429Final(k, o) ==
    IF o.exc # "" THEN OnException(o.exc)
    ELSE IF o.status = 200 THEN Step(TRUE, o.body, FALSE, 0)
    ELSE IF o.status \in {404, 429} THEN Step(TRUE, None, FALSE, 0)
    ELSE Step(FALSE, None, FALSE, 1)

\* A mutant of iteration: a 404 is treated like any other status.
iteration_Retry404(k, o) ==
    IF o.exc # "" THEN OnException(o.exc)
    ELSE IF o.status = 200 THEN Step(TRUE, o.body, FALSE, 0)
    ELSE IF o.status = 429 THEN Step(FALSE, None, FALSE, wait_time(k))
    ELSE Step(FALSE, None, FALSE, 1)

iteration(k, o) ==
    IF o.exc # "" THEN OnException(o.exc)
    ELSE IF o.status = 200 THEN Step(TRUE, o.body, FALSE, 0)
    ELSE IF o.status = 404 THEN Step(TRUE, None, FALSE, 0)
    ELSE IF o.status = 429 THEN Step(FALSE, None, FALSE, wait_time(k))
    ELSE Step(FALSE, None, FALSE, 1)

\* Entries of the log.
Request(k, o) == [ev |-> "request", attempt |-> k, status |-> o.status,
                  exc |-> o.exc, body |-> o.body, secs |-> 0]
Sleep(k, o, n) == [ev |-> "sleep", attempt |-> k, status |-> o.status,
                   exc |-> o.exc, body |-> o.body, secs |-> n]

FetchInit ==
    /\ fetch_kind \in {"json", "text"}
    /\ attempt = 0
    /\ fetch_pc = "loop"
    /\ fetch_result = None
    /\ log = <<>>
    /\ MergeIdle
    /\ NormIdle
    /\ PipeIdle
    /\ ReportIdle

\* One iteration of  for attempt in range(retry): the request, then the
\* return, the sleep or the exception it leads to.
FetchAttempt ==
    /\ fetch_pc = "loop"
    /\ attempt < RETRY_COUNT
    /\ \E o \in Outcomes(fetch_kind) :
          LET st == iteration(attempt, o)
          IN /\ log' = IF st.secs > 0
                       THEN log \o <<Request(attempt, o), Sleep(attempt, o, st.secs)>>
                       ELSE Append(log, Request(attempt, o))
             /\ fetch_pc' = IF st.raised THEN "raised"
                            ELSE IF st.ret THEN "returned" ELSE "loop"
             /\ fetch_result' = st.value
             /\ attempt' = IF st.ret \/ st.raised THEN attempt ELSE attempt + 1
    /\ UNCHANGED <<fetch_kind, merge_vars, norm_vars, pipe_vars, report_vars>>

\* The loop is over: return None.
FetchExhausted ==
    /\ fetch_pc = "loop"
    /\ attempt = RETRY_COUNT
    /\ fetch_pc' = "returned"
    /\ fetch_result' = None
    /\ UNCHANGED <<fetch_kind, attempt, log, merge_vars, norm_vars, pipe_vars, report_vars>>

FetchNext == FetchAttempt \/ FetchExhausted

SpecFetch == FetchInit /\ [][FetchNext]_vars

-----------------------------------------------------------------------------
(* Claims about the fetcher.                                               *)

IsRequest(e) == e.ev = "request"

\* A 200 whose body was decoded, and a 200 whose body could not be.
IsDecoded200(e) == IsRequest(e) /\ e.status = 200 /\ e.exc = ""
IsUndecodable200(e) == IsRequest(e) /\ e.status = 200 /\ e.exc # ""
Is404(e) == IsRequest(e) /\ e.status = 404

Is429Sleep(e) == e.ev = "sleep" /\ e.status = 429

NumRequests == Cardinality({k \in DOMAIN log : IsRequest(log[k])})

\* C8 (as amended): a fetch issues at most 3 requests; the first 200 whose
\* body decodes ends it at once with that body, the first 404 ends it at once
\* with None, without a sleep; a 200 whose body cannot be decoded does not end
\* it but is followed by a sleep of 1 second (and the next attempt, if one is
\* left); a fetch without a decoded 200 or a 404 in its 3 attempts returns
\* None.
C8_BoundedFetch ==
    /\ NumRequests <= RETRY_COUNT
    /\ \A k \in DOMAIN log :
          /\ IsDecoded200(log[k]) =>
                /\ k = Len(log)
                /\ fetch_pc = "returned"
                /\ fetch_result = log[k].body
          /\ Is404(log[k]) =>
                /\ k = Len(log)
                /\ fetch_pc = "returned"
                /\ fetch_result = None
          /\ IsUndecodable200(log[k]) =>
                /\ k < Len(log)
                /\ log[k + 1].ev = "sleep" /\ log[k + 1].secs = 1
                /\ fetch_pc = "returned" =>
                      \/ log[k].attempt = RETRY_COUNT - 1
                      \/ k + 2 <= Len(log) /\ IsRequest(log[k + 2])
    /\ (/\ fetch_pc = "returned"
        /\ \A k \in DOMAIN log : ~IsDecoded200(log[k]) /\ ~Is404(log[k]))
          => fetch_result = None /\ NumRequests = RETRY_COUNT

\* A fetch returned a body at its third request, after a 500 and a timeout.
C8_Witness ==
    /\ fetch_pc = "returned"
    /\ NumRequests = 3
    /\ Len(log) = 5
    /\ log[1].status = 500
    /\ log[3].exc = "Timeout"
    /\ IsDecoded200(log[5])
    /\ fetch_result = log[5].body
    /\ fetch_result \in Bodies

\* C8 as claimed: the first response with status 200 ends the fetch at once,
\* with the decoded body and no further request.
C8_Original ==
    \A k \in DOMAIN log :
        (IsRequest(log[k]) /\ log[k].status = 200) =>
            /\ k = Len(log)
            /\ fetch_pc = "returned"
            /\ fetch_result \in Bodies

\* C9 (as amended): after a 429 the fetcher sleeps 5 seconds times the number
\* of the attempt (5, 10, 15), longer after every later 429 of the fetch; after
\* a 429 at the first or second attempt the sleep is followed by the next
\* request; after a 429 at the third attempt the fetcher sleeps 15 seconds and
\* returns None without another request.
C9_Backoff ==
    /\ \A k \in DOMAIN log :
          Is429Sleep(log[k]) =>
             /\ log[k].secs = 5 * (log[k].attempt + 1)
             /\ k > 1 /\ IsRequest(log[k - 1]) /\ log[k - 1].status = 429
    /\ \A j, k \in DOMAIN log :
          (j < k /\ Is429Sleep(log[j]) /\ Is429Sleep(log[k])) => log[j].secs < log[k].secs
    /\ fetch_pc = "returned" =>
          \A k \in DOMAIN log :
             Is429Sleep(log[k]) =>
                IF log[k].attempt < RETRY_COUNT - 1
                THEN /\ k < Len(log)
                     /\ IsRequest(log[k + 1])
                     /\ log[k + 1].attempt = log[k].attempt + 1
                ELSE /\ k = Len(log)
                     /\ log[k].secs = 15
                     /\ fetch_result = None

\* Two 429 in a row, then a 200: sleeps of 5 and 10 seconds, each followed by
\* a request.
C9_Witness ==
    /\ fetch_pc = "returned"
    /\ Len(log) = 5
    /\ Is429Sleep(log[2]) /\ log[2].secs = 5
    /\ Is429Sleep(log[4]) /\ log[4].secs = 10
    /\ IsDecoded200(log[5])

\* C9 as claimed: every sleep after a 429 is followed by another request.
C9_Original ==
    fetch_pc = "returned" =>
        \A k \in DOMAIN log :
            Is429Sleep(log[k]) => (k < Len(log) /\ IsRequest(log[k + 1]))

\* C10: whatever the outcomes of the attempts (any status, a timeout, a
\* transport error, a 200 whose body cannot be decoded), no exception leaves
\* the fetcher: the loop goes on while attempts are left and the fetch ends
\* by returning a decoded body or None.
C10_NeverRaises ==
    /\ fetch_pc # "raised"
    /\ fetch_pc = "loop" => (attempt <= RETRY_COUNT /\ ENABLED FetchNext)
    /\ fetch_pc = "returned" => fetch_result \in Bodies \cup {None}

\* A fetch returned None after an undecodable 200 (a ValueError), a timeout
\* and a transport error.
C10_Witness ==
    /\ fetch_pc = "returned"
    /\ fetch_result = None
    /\ Len(log) = 6
    /\ IsUndecodable200(log[1]) /\ log[1].exc = "ValueError"
    /\ log[3].exc = "Timeout" /\ log[4].secs = 2
    /\ log[5].exc = "ConnectionError"

-----------------------------------------------------------------------------
(* The pipeline: main, process_single_doi, the two citation adapters and   *)
(* enrich_citation_metadata.  A call of make_request is one step here: the *)
(* retry loop is run over the outcomes the source serves for that call.    *)

\* make_request as a function of the outcomes of its attempts.
RECURSIVE attempts(_, _)
attempts(k, script) ==
    IF k = RETRY_COUNT \/ script = <<>> THEN None
    ELSE LET st == iteration(k, Head(script))
         IN IF st.ret THEN st.value ELSE attempts(k + 1, Tail(script))

make_request(script) == attempts(0, script)

\* The seconds make_request sleeps over these outcomes.
RECURSIVE slept(_, _)
slept(k, script) ==
    IF k = RETRY_COUNT \/ script = <<>> THEN 0
    ELSE LET st == iteration(k, Head(script))
         IN IF st.ret THEN 0 ELSE st.secs + slept(k + 1, Tail(script))

\* A decoded JSON document (None is not one).
Json(doc) == <<"json", doc>>
Doc(data) == data[2]

\* What a source serves: the document with status 200, or a 404.
Ok(doc) == Outcome(200, "", Json(doc))
NotFound == Outcome(404, "", <<>>)
TooMany == Outcome(429, "", <<>>)

\* The outcomes of one call: the answer, after a 429 at the first attempt
\* if the source throttles.
Served(answer, throttle) == IF throttle THEN <<TooMany, answer>> ELSE <<answer>>

\* A JSON object: the keys it has, those of them whose value is null, and
\* the values.  dict.get(key, default) gives the default for a missing key
\* only, None for a null value.
IsMissing(obj, key) == key \notin obj.has
IsNull(obj, key) == key \in obj.has /\ key \in obj.nulls

\* str(n) of a natural number.
Digits == <<"0", "1", "2", "3", "4", "5", "6", "7", "8", "9">>
RECURSIVE str(_)
str(n) == IF n < 10 THEN Digits[n + 1] ELSE str(n \div 10) \o Digits[(n % 10) + 1]

\* not x  for a text, a list or None.
Falsy(x) == x = None \/ x = <<>>

\* extract_authors_from_openalex, over the display names of the authorships
\* ("" for an authorship without one).
extract_authors_from_openalex(authorships) ==
    SelectSeq(authorships, LAMBDA name : name # "")

\* A citing work of an OpenAlex page.  null: the item is no object, and
\* work.get raises.  doi is <<>> when the key is missing or the text empty;
\* publication_year is 0 when there is none.
Work(d, t, a, y) ==
    [null |-> FALSE, doi |-> d, title |-> t, authorships |-> a, publication_year |-> y]
NullWork == [null |-> TRUE, doi |-> <<>>, title |-> "", authorships |-> <<>>,
             publication_year |-> 0]

\* A mutant of convert_works: a work that raises takes the records collected
\* so far with it.
RECURSIVE convert_works_Discards(_, _)
convert_works_Discards(citations, works) ==
    IF works = <<>> THEN [citations |-> citations, raised |-> FALSE]
    ELSE LET work == Head(works)
         IN IF work.null THEN [citations |-> <<>>, raised |-> TRUE]
            ELSE IF Falsy(work.doi) \/ Falsy(normalize_doi(work.doi))
            THEN convert_works_Discards(citations, Tail(works))
            ELSE convert_works_Discards(
                   Append(citations,
                          Citation(normalize_doi(work.doi),
                                   work.title,
                                   extract_authors_from_openalex(work.authorships),
                                   IF work.publication_year # 0
                                   THEN str(work.publication_year) ELSE "",
                                   "OpenAlex")),
                   Tail(works))

\* The body of  for work in data.get('results', [])  over the works of one
\* page: the records appended to citations, and whether a work raised.
RECURSIVE convert_works(_, _)
convert_works(citations, works) ==
    IF works = <<>> THEN [citations |-> citations, raised |-> FALSE]
    ELSE LET work == Head(works)
         IN IF work.null THEN [citations |-> citations, raised |-> TRUE]
            ELSE IF Falsy(work.doi) \/ Falsy(normalize_doi(work.doi))
            THEN convert_works(citations, Tail(works))
            ELSE convert_works(
                   Append(citations,
                          Citation(normalize_doi(work.doi),
                                   work.title,
                                   extract_authors_from_openalex(work.authorships),
                                   IF work.publication_year # 0
                                   THEN str(work.publication_year) ELSE "",
                                   "OpenAlex")),
                   Tail(works))

\* The loop of get_citations_from_opencitations over the items of the answer
\* (each item is its 'citing' text).
RECURSIVE convert_citing(_, _)
convert_citing(citations, items) ==
    IF items = <<>> THEN citations
    ELSE IF Falsy(Head(items)) \/ Falsy(normalize_doi(Head(items)))
    THEN convert_citing(citations, Tail(items))
    ELSE convert_citing(
           Append(citations,
                  Citation(normalize_doi(Head(items)), "", <<>>, "", "OpenCitations")),
           Tail(items))

\* get_citations_from_opencitations as a function of what make_request gave.
get_citations_from_opencitations(data) ==
    IF data = None \/ Doc(data) = <<>> THEN <<>> ELSE convert_citing(<<>>, Doc(data))

\* The full name get_metadata_from_crossref builds for one author.
full_name(author) ==
    IF author.given # "" /\ author.family # "" THEN author.given \o " " \o author.family
    ELSE IF author.family # "" THEN author.family
    ELSE author.given

RECURSIVE full_names(_)
full_names(author_list) ==
    IF author_list = <<>> THEN <<>>
    ELSE LET rest == full_names(Tail(author_list))
         IN IF full_name(Head(author_list)) # ""
            THEN <<full_name(Head(author_list))>> \o rest ELSE rest

\* What a lookup without a result returns: (None, [], '').  The title None
\* is written "" here: the caller only tests it for truth.
NoMetadata == [title |-> "", authors |-> <<>>, year |-> ""]

\* get_metadata_from_crossref as a function of what make_request gave.  The
\* year is the one of 'issued' (0: no date).
get_metadata_from_crossref(data) ==
    IF data = None THEN NoMetadata
    ELSE LET obj == Doc(data)
         IN IF obj.has = {} \/ IsMissing(obj, "message") \/ IsNull(obj, "message")
            THEN NoMetadata
            ELSE [title   |-> IF obj.title # <<>> THEN obj.title[1] ELSE "",
                  authors |-> full_names(obj.author),
                  year    |-> IF obj.issued # 0 THEN str(obj.issued) ELSE ""]

\* A mutant of Fill: a title that was found replaces the one of the record.
Fill_Overwrite(citation, found) ==
    [citation EXCEPT
        !.title   = IF found.title # "" THEN found.title ELSE @,
        !.authors = IF found.authors # <<>> /\ citation.authors = <<>>
                    THEN found.authors ELSE @,
        !.year    = IF found.year # "" /\ citation.year = "" THEN found.year ELSE @]

\* The three assignments of enrich_citation_metadata for one record.
Fill(citation, found) ==
    [citation EXCEPT
        !.title   = IF found.title # "" /\ citation.title = "" THEN found.title ELSE @,
        !.authors = IF found.authors # <<>> /\ citation.authors = <<>>
                    THEN found.authors ELSE @,
        !.year    = IF found.year # "" /\ citation.year = "" THEN found.year ELSE @]

NeedsMetadata(citation) ==
    citation.title = "" \/ citation.authors = <<>> \/ citation.year = ""

-----------------------------------------------------------------------------
(* What the sources answer.                                                *)

\* Bounds: the pages a source is described by, the identifiers of a batch.
MaxPages == 2
MaxIds == 3

\* The work of  /works/doi:...
WorkObj(has, nulls, n) == [has |-> has, nulls |-> nulls, cited_by_count |-> n]

CitedWork == Ok(WorkObj({"id", "cited_by_count"}, {}, 2))

WorkAnswers ==
    { NotFound,
      Ok(WorkObj({}, {}, 0)),                                  \* {}
      Ok(WorkObj({"id"}, {}, 0)),                              \* no cited_by_count
      Ok(WorkObj({"id", "cited_by_count"}, {}, 0)),            \* cited_by_count: 0
      Ok(WorkObj({"id", "cited_by_count"}, {"cited_by_count"}, 0)),  \* null
      Ok(WorkObj({"id", "cited_by_count"}, {"id"}, 2)),        \* id: null
      CitedWork }

\* Raw identifiers as the sources write them, and what they normalize to.
Raw_A == prefixes[1] \o Str_10_1234_AbC      \* "https://doi.org/10.1234/AbC"
Raw_B == Str_10_1234_abc \o <<50>>           \* "10.1234/abc2"
Raw_C == Str_10_1234_abc \o <<51>>           \* "10.1234/abc3"
Doi_A == Str_10_1234_abc
Doi_B == Raw_B
Doi_C == Raw_C

WorksLists ==
    { <<>>,
      << Work(Raw_A, "X", <<"Ann", "">>, 2020),
         Work(Raw_C, "Y", <<>>, 0) >>,
      << Work(Raw_A, "", <<>>, 0),
         Work(<<>>, "Y", <<"Bob">>, 2021),
         Work(Str_NotADoi, "Y", <<"Bob">>, 2021),
         Work(Raw_B, "X", <<"Ann">>, 2020) >> }

\* A page of  /works?filter=cites:...
Meta(has, nulls, c) == [has |-> has, nulls |-> nulls, next_cursor |-> c]
PageObj(has, nulls, works, meta) ==
    [has |-> has, nulls |-> nulls, results |-> works, meta |-> meta]

\* A page with a next_cursor to go on with.
MorePage(works) ==
    Ok(PageObj({"results", "meta"}, {}, works, Meta({"next_cursor"}, {}, <<110>>)))

\* A page whose meta has next_cursor: null.
EndPage(works) ==
    Ok(PageObj({"results", "meta"}, {}, works,
               Meta({"next_cursor"}, {"next_cursor"}, <<>>)))

MorePages == {MorePage(works) : works \in WorksLists}

\* The pages a page script may end with.
LastPages ==
    MorePages
      \cup {EndPage(works) : works \in WorksLists}
      \cup { NotFound,
             Ok(PageObj({}, {}, <<>>, Meta({}, {}, <<>>))),               \* {}
             Ok(PageObj({"meta"}, {}, <<>>, Meta({"next_cursor"}, {}, <<110>>))),
             MorePage(<< Work(Raw_A, "X", <<"Ann">>, 2020), NullWork,
                         Work(Raw_B, "X", <<"Ann">>, 2020) >>),
             Ok(PageObj({"results"}, {}, <<Work(Raw_C, "", <<>>, 0)>>,
                        Meta({}, {}, <<>>))),                             \* no meta
             Ok(PageObj({"results", "meta"}, {"meta"},
                        <<Work(Raw_C, "", <<>>, 0)>>, Meta({}, {}, <<>>))), \* meta: null
             Ok(PageObj({"results", "meta"}, {}, <<Work(Raw_C, "", <<>>, 0)>>,
                        Meta({}, {}, <<>>))),                             \* meta: {}
             Ok(PageObj({"results", "meta"}, {}, <<Work(Raw_C, "", <<>>, 0)>>,
                        Meta({"next_cursor"}, {}, <<>>))) }               \* ""

\* CitedPages: the answers to the page requests of one identifier, in their
\* order: pages to go on with, then a last page.  endless: the source goes
\* on serving the last page; otherwise a request beyond the last page is not
\* answered.
PagesOfLen(n) ==
    {front \o <<last>> : front \in [1 .. n - 1 -> MorePages], last \in LastPages}

CitedPages ==
    {[pages |-> ps, endless |-> FALSE] : ps \in UNION {PagesOfLen(n) : n \in 1 .. MaxPages}}

EndlessPages ==
    {[pages |-> ps, endless |-> TRUE] :
        ps \in UNION {[1 .. n -> MorePages] : n \in 1 .. MaxPages}}

\* The answers of the citation index.
CitingAnswers ==
    { NotFound,
      Ok(<<>>),
      Ok(<<Raw_A, <<>>, Str_NotADoi, Raw_B, Raw_C>>) }

\* The answers of the metadata lookup.
MessageObj(has, nulls, t, a, y) ==
    [has |-> has, nulls |-> nulls, title |-> t, author |-> a, issued |-> y]

\* A message with two titles, three authors (one without a name) and a date.
FullMetadata ==
    Ok(MessageObj({"message"}, {}, <<"Z", "Z2">>,
                  << [given |-> "Zoe", family |-> "Zed"],
                     [given |-> "", family |-> "Yu"],
                     [given |-> "", family |-> ""] >>, 1999))

MetadataAnswers ==
    { NotFound,
      Ok(MessageObj({}, {}, <<>>, <<>>, 0)),                           \* {}
      Ok(MessageObj({"message"}, {}, <<>>, <<>>, 0)),                  \* nothing in it
      FullMetadata }

\* What the sources answer for one queried identifier.
World(w, cp, c, m) ==
    [work |-> w, pages |-> cp.pages, endless |-> cp.endless, cites |-> c, metadata |-> m]

\* The answer to the n-th page request.
PageAnswer(w, n) ==
    IF n <= Len(w.pages) THEN w.pages[n]
    ELSE IF w.endless THEN w.pages[Len(w.pages)]
    ELSE NotFound

\* The sources seen by one identifier: every answer to the work lookup with
\* one page behind it, every page script behind a cited work, and the
\* sources that never run out of pages.
SourceWorlds ==
    {World(w, [pages |-> <<EndPage(<<Work(Raw_A, "X", <<"Ann">>, 2020)>>)>>,
               endless |-> FALSE], c, FullMetadata) :
        w \in WorkAnswers, c \in CitingAnswers}
      \cup {World(CitedWork, cp, c, m) :
              cp \in CitedPages, c \in CitingAnswers, m \in MetadataAnswers}
      \cup {World(CitedWork, cp, Ok(<<Raw_A, Raw_C>>), FullMetadata) :
              cp \in EndlessPages}

\* The sources of a batch: an identifier nobody cites (scenario 2 of the
\* specification), one cited in both sources (scenario 1), and one OpenAlex
\* does not know.
ZeroWorld ==
    World(Ok(WorkObj({"id", "cited_by_count"}, {}, 0)),
          [pages |-> <<NotFound>>, endless |-> FALSE], Ok(<<>>), NotFound)
Scenario1World ==
    World(CitedWork,
          [pages |-> << EndPage(<< Work(Raw_A, "X", <<"Ann">>, 2020),
                                   Work(Raw_B, "", <<>>, 0) >>) >>,
           endless |-> FALSE],
          Ok(<<Raw_A, Raw_B, Raw_C>>), FullMetadata)
UnknownWorld ==
    World(NotFound, [pages |-> <<NotFound>>, endless |-> FALSE],
          Ok(<<Raw_C>>), NotFound)

BatchWorlds == {ZeroWorld, Scenario1World, UnknownWorld}

\* The identifiers queried.
Queried == {"10.1000/a", "10.1000/b"}

\* A mutant of fromkeys: nothing is taken out.
fromkeys_NoDedup(dois) == dois

\* list(OrderedDict.fromkeys(dois))
RECURSIVE fromkeys(_)
fromkeys(dois) ==
    IF dois = <<>> THEN <<>>
    ELSE LET front == fromkeys(SubSeq(dois, 1, Len(dois) - 1))
             last == dois[Len(dois)]
         IN IF \E k \in DOMAIN front : front[k] = last THEN front
            ELSE Append(front, last)

Range(f) == {f[k] : k \in DOMAIN f}

\* main up to the loop: the identifiers of a CSV file are deduplicated, the
\* ones of a depositor report are not.
PipeInit ==
    /\ \/ /\ \E dois \in UNION {[1 .. n -> Queried] : n \in 1 .. MaxIds} :
                /\ source_kind \in {"csv", "pubid"}
                /\ unique_dois = IF source_kind = "csv" THEN fromkeys(dois) ELSE dois
          /\ world \in [Range(unique_dois) -> BatchWorlds]
       \/ /\ source_kind = "csv"
          /\ unique_dois = <<"10.1000/a">>
          /\ world \in [{"10.1000/a"} -> SourceWorlds]
    /\ results = <<>>
    /\ writes = <<>>
    /\ main_i = 0
    /\ main_pc = "loop"
    /\ proc_pc = "idle"
    /\ cursor = None
    /\ page_count = 0
    /\ page_fetches = 0
    /\ merged_citations = <<>>
    /\ enrich_i = 0
    /\ last_call = "none"
    /\ prev_call = "none"
    /\ last_fetch = "none"
    /\ throttled = FALSE
    /\ MergeIdle
    /\ NormIdle
    /\ FetchIdle
    /\ ReportIdle

-----------------------------------------------------------------------------
(* main, process_single_doi and what they call.                            *)

max_pages == 50

\* A mutant of the loop condition: no page cap.
while_cursor_NoCap(c, n) == ~Falsy(c)

\* while cursor and page_count < max_pages
while_cursor(c, n) == ~Falsy(c) /\ n < max_pages

\* The identifier in process.
doi == unique_dois[main_i]

Item(d, citations) == [doi |-> d, citations |-> citations]

\* Mutants of setitem: one that puts a new key first, one that keeps no
\* other key.
setitem_Front(m, d, citations) ==
    IF \E k \in DOMAIN m : m[k].doi = d
    THEN [k \in DOMAIN m |-> IF m[k].doi = d THEN Item(d, citations) ELSE m[k]]
    ELSE <<Item(d, citations)>> \o m

setitem_Alone(m, d, citations) == <<Item(d, citations)>>

\* m[d] = citations  on an OrderedDict: the value of a key that is there is
\* replaced where it stands, a new key goes to the end.
setitem(m, d, citations) ==
    IF \E k \in DOMAIN m : m[k].doi = d
    THEN [k \in DOMAIN m |-> IF m[k].doi = d THEN Item(d, citations) ELSE m[k]]
    ELSE Append(m, Item(d, citations))

\* The locals of process_single_doi and of what it calls, when none is running.
NoLocals ==
    /\ openalex_citations' = <<>>
    /\ opencitations_citations' = <<>>
    /\ merged_citations' = <<>>
    /\ cursor' = None
    /\ page_count' = 0
    /\ enrich_i' = 0

locals == <<openalex_citations, opencitations_citations, merged_citations, cursor,
            page_count, enrich_i>>
others == <<merged, merge_i, merge_pc, merge_result, norm_vars, fetch_vars,
           report_vars>>
inputs == <<source_kind, unique_dois, world>>
calls  == <<last_call, prev_call, last_fetch, throttled, page_fetches>>

\* A caller issues a fetch (kind says which) and make_request returns.
Issue(kind, throttle) ==
    /\ prev_call' = last_call
    /\ last_fetch' = kind
    /\ throttled' = (throttled \/ throttle)

\* for i, doi in enumerate(unique_dois, 1): the next identifier; the call of
\* process_single_doi.
Start ==
    /\ main_pc = "loop"
    /\ proc_pc = "idle"
    /\ main_i < Len(unique_dois)
    /\ main_i' = main_i + 1
    /\ proc_pc' = "openalex"
    /\ throttled' = FALSE
    /\ page_fetches' = 0
    /\ UNCHANGED <<inputs, results, writes, main_pc, locals, last_call, prev_call,
                   last_fetch, others>>

\* A mutant of returns_early: the citation count is not looked at.
returns_early_NoCount(work_data) ==
    \/ work_data = None
    \/ Doc(work_data).has = {}
    \/ IsNull(Doc(work_data), "id")

\* get_citations_from_openalex returns before its loop:  not work_data, an
\* exception (None.replace, when id is null), or  cited_by_count == 0, where
\* a missing count is 0 and a null one is None.
returns_early(work_data) ==
    \/ work_data = None
    \/ Doc(work_data).has = {}
    \/ IsNull(Doc(work_data), "id")
    \/ IsMissing(Doc(work_data), "cited_by_count")
    \/ /\ ~IsNull(Doc(work_data), "cited_by_count")
       /\ Doc(work_data).cited_by_count = 0

\* get_citations_from_openalex up to the loop: the work lookup.  When the
\* adapter returns here, process_single_doi sleeps the delay.
WorkLookup ==
    /\ main_pc = "loop"
    /\ proc_pc = "openalex"
    /\ \E throttle \in BOOLEAN :
          LET work_data == make_request(Served(world[doi].work, throttle))
          IN /\ Issue("work", throttle)
             /\ openalex_citations' = <<>>
             /\ IF returns_early(work_data)
                THEN /\ proc_pc' = "opencitations"
                     /\ last_call' = "delay"
                     /\ UNCHANGED <<cursor, page_count>>
                ELSE /\ proc_pc' = "pages"
                     /\ last_call' = "fetch"
                     /\ cursor' = <<42>>                   \* "*"
                     /\ page_count' = 0
    /\ UNCHANGED <<inputs, results, writes, main_i, main_pc, opencitations_citations,
                   merged_citations, enrich_i, page_fetches, others>>

\* One iteration of  while cursor and page_count < max_pages.  When the loop
\* is left, by its condition, by break or by an exception, the adapter
\* returns and process_single_doi sleeps the delay.
PageFetch ==
    /\ main_pc = "loop"
    /\ proc_pc = "pages"
    /\ \E throttle \in BOOLEAN :
          LET data == make_request(
                         Served(PageAnswer(world[doi], page_fetches + 1), throttle))
              breaks == \/ data = None
                        \/ Doc(data).has = {}
                        \/ IsMissing(Doc(data), "results")
              conv == convert_works(openalex_citations, Doc(data).results)
              meta == Doc(data).meta
              next_cursor ==
                 IF IsMissing(Doc(data), "meta") \/ IsMissing(meta, "next_cursor")
                      \/ IsNull(meta, "next_cursor")
                 THEN None ELSE meta.next_cursor
          IN /\ Issue("page", throttle)
             /\ page_fetches' = page_fetches + 1
             /\ last_call' = "delay"
             /\ IF breaks
                THEN /\ proc_pc' = "opencitations"
                     /\ UNCHANGED <<openalex_citations, cursor, page_count>>
                ELSE IF conv.raised \/ IsNull(Doc(data), "meta")
                THEN /\ proc_pc' = "opencitations"
                     /\ openalex_citations' = conv.citations
                     /\ UNCHANGED <<cursor, page_count>>
                ELSE /\ openalex_citations' = conv.citations
                     /\ cursor' = next_cursor
                     /\ page_count' = page_count + 1
                     /\ proc_pc' = IF while_cursor(next_cursor, page_count + 1)
                                   THEN "pages" ELSE "opencitations"
    /\ UNCHANGED <<inputs, results, writes, main_i, main_pc, opencitations_citations,
                   merged_citations, enrich_i, others>>

\* get_citations_from_opencitations, and the delay after it.
CitingFetch ==
    /\ main_pc = "loop"
    /\ proc_pc = "opencitations"
    /\ \E throttle \in BOOLEAN :
          /\ Issue("citing", throttle)
          /\ opencitations_citations' =
                get_citations_from_opencitations(
                    make_request(Served(world[doi].cites, throttle)))
    /\ last_call' = "delay"
    /\ proc_pc' = "merge"
    /\ UNCHANGED <<inputs, results, writes, main_i, main_pc, openalex_citations,
                   merged_citations, cursor, page_count, enrich_i, page_fetches,
                   others>>

\* merged_citations = merge_citations(...); if merged_citations: ...
Merge ==
    /\ main_pc = "loop"
    /\ proc_pc = "merge"
    /\ merged_citations' = merge_citations(openalex_citations, opencitations_citations)
    /\ enrich_i' = 0
    /\ proc_pc' = IF merged_citations' = <<>> THEN "return" ELSE "enrich"
    /\ UNCHANGED <<inputs, results, writes, main_i, main_pc, openalex_citations,
                   opencitations_citations, cursor, page_count, calls, others>>

\* One iteration of the loop of enrich_citation_metadata: a record with an
\* empty field is looked up, filled and followed by the delay.
Enrich ==
    /\ main_pc = "loop"
    /\ proc_pc = "enrich"
    /\ LET citation == merged_citations[enrich_i + 1]
       IN IF NeedsMetadata(citation)
          THEN \E throttle \in BOOLEAN :
                  LET found == get_metadata_from_crossref(
                                  make_request(Served(world[doi].metadata, throttle)))
                  IN /\ Issue("metadata", throttle)
                     /\ merged_citations' =
                           [merged_citations EXCEPT ![enrich_i + 1] = Fill(citation, found)]
                     /\ last_call' = "delay"
          ELSE UNCHANGED <<merged_citations, last_call, prev_call, last_fetch, throttled>>
    /\ enrich_i' = enrich_i + 1
    /\ proc_pc' = IF enrich_i + 1 = Len(merged_citations) THEN "return" ELSE "enrich"
    /\ UNCHANGED <<inputs, results, writes, main_i, main_pc, openalex_citations,
                   opencitations_citations, cursor, page_count, page_fetches, others>>

\* An entry of writes: the key, the value, on which path of main, and whether
\* a fetch of the identifier met a 429.
Write(how, citations) ==
    [doi |-> doi, citations |-> citations, how |-> how, throttled |-> throttled]

\* process_single_doi returned:  results[doi] = citations
Record ==
    /\ main_pc = "loop"
    /\ proc_pc = "return"
    /\ results' = setitem(results, doi, merged_citations)
    /\ writes' = Append(writes, Write("completed", merged_citations))
    /\ proc_pc' = "idle"
    /\ NoLocals
    /\ UNCHANGED <<inputs, main_i, main_pc, calls, others>>

\* except Exception: a statement of process_single_doi raised (a print that
\* cannot write, for one; the adapters and the lookup catch their own).
\* results[doi] = []
Fail ==
    /\ main_pc = "loop"
    /\ proc_pc \in {"openalex", "opencitations", "merge", "enrich"}
    /\ results' = setitem(results, doi, <<>>)
    /\ writes' = Append(writes, Write("failed", <<>>))
    /\ proc_pc' = "idle"
    /\ NoLocals
    /\ UNCHANGED <<inputs, main_i, main_pc, calls, others>>

\* Mutants of Interrupt: one that records the empty list before the break,
\* one that gives up the identifier and goes on with the next.
Interrupt_Records ==
    /\ main_pc = "loop"
    /\ proc_pc # "idle"
    /\ results' = setitem(results, doi, <<>>)
    /\ writes' = Append(writes, Write("completed", <<>>))
    /\ main_pc' = "reporting"
    /\ NoLocals
    /\ UNCHANGED <<inputs, main_i, proc_pc, calls, others>>

Interrupt_GoesOn ==
    /\ main_pc = "loop"
    /\ proc_pc # "idle"
    /\ proc_pc' = "idle"
    /\ NoLocals
    /\ UNCHANGED <<inputs, results, writes, main_i, main_pc, calls, others>>

\* except KeyboardInterrupt: the operator interrupts while process_single_doi
\* runs (no except Exception on the way catches it); break.  proc_pc keeps
\* the place of the interrupt.
Interrupt ==
    /\ main_pc = "loop"
    /\ proc_pc # "idle"
    /\ main_pc' = "reporting"
    /\ NoLocals
    /\ UNCHANGED <<inputs, results, writes, main_i, proc_pc, calls, others>>

\* The operator interrupts between two identifiers, outside the try
\* statement: the KeyboardInterrupt leaves main.
InterruptOutside ==
    /\ main_pc = "loop"
    /\ proc_pc = "idle"
    /\ main_pc' = "interrupted"
    /\ UNCHANGED <<inputs, results, writes, main_i, proc_pc, locals, calls, others>>

\* The loop is over.
LoopEnd ==
    /\ main_pc = "loop"
    /\ proc_pc = "idle"
    /\ main_i = Len(unique_dois)
    /\ main_pc' = "reporting"
    /\ UNCHANGED <<inputs, results, writes, main_i, proc_pc, locals, calls, others>>

\* generate_summary_report(results); save_results_to_csv(results, output_path)
Save ==
    /\ main_pc = "reporting"
    /\ main_pc' = "saved"
    /\ UNCHANGED <<inputs, results, writes, main_i, proc_pc, locals, calls, others>>

PipeNext ==
    \/ Start \/ WorkLookup \/ PageFetch \/ CitingFetch \/ Merge \/ Enrich
    \/ Record \/ Fail \/ Interrupt \/ InterruptOutside \/ LoopEnd \/ Save

SpecPipeline == PipeInit /\ [][PipeNext]_vars

-----------------------------------------------------------------------------
(* Claims about the pipeline.                                              *)

\* An answer with status 200 is returned alike at the first attempt and at
\* the second one after a 429; the latter takes a sleep of 5 seconds.
SameThrottled(a) ==
    a.status = 200 =>
        /\ make_request(Served(a, TRUE)) = make_request(Served(a, FALSE))
        /\ make_request(Served(a, TRUE)) = a.body
        /\ slept(0, Served(a, TRUE)) = 5
        /\ slept(0, Served(a, FALSE)) = 0

\* C11: a fetch that meets a 429 and then a 200 with a body returns what a
\* fetch that meets the 200 at once returns, the body, after a sleep of 5
\* seconds the other does not have; and two identifiers the sources answer
\* alike get equal results from completed pipelines, whether or not a fetch
\* met a 429 on the way.
C11_ThrottledSameResult ==
    /\ \A d \in DOMAIN world :
          /\ SameThrottled(world[d].work)
          /\ SameThrottled(world[d].cites)
          /\ SameThrottled(world[d].metadata)
          /\ \A n \in DOMAIN world[d].pages : SameThrottled(world[d].pages[n])
    /\ \A j, k \in DOMAIN writes :
          (/\ writes[j].how = "completed"
           /\ writes[k].how = "completed"
           /\ world[writes[j].doi] = world[writes[k].doi])
             => writes[j].citations = writes[k].citations

\* Two identifiers with the answers of scenario 1, one of them throttled, the
\* other not, were recorded with the same three citations.
C11_Witness ==
    \E j, k \in DOMAIN writes :
        /\ writes[j].throttled /\ ~writes[k].throttled
        /\ writes[j].doi # writes[k].doi
        /\ writes[j].how = "completed" /\ writes[k].how = "completed"
        /\ world[writes[j].doi] = Scenario1World
        /\ world[writes[k].doi] = Scenario1World
        /\ Len(writes[j].citations) = 3
        /\ writes[j].citations = writes[k].citations
        /\ \E e \in DOMAIN results :
              results[e].doi = writes[j].doi /\ results[e].citations = writes[j].citations

\* The adapters and the stages after the OpenAlex page loop of the identifier
\* in process.
AfterPages ==
    main_pc = "loop" /\ proc_pc \in {"opencitations", "merge", "enrich", "return"}

\* The answer to the latest page request carried a next_cursor to go on with.
LatestPageHasCursor ==
    LET a == PageAnswer(world[doi], page_fetches)
    IN /\ a.status = 200
       /\ ~IsMissing(Doc(a.body), "results")
       /\ ~IsMissing(Doc(a.body), "meta") /\ ~IsNull(Doc(a.body), "meta")
       /\ ~IsMissing(Doc(a.body).meta, "next_cursor")
       /\ ~IsNull(Doc(a.body).meta, "next_cursor")
       /\ Doc(a.body).meta.next_cursor # <<>>

\* C12: the page loop of the OpenAlex adapter ends.  Every iteration is one
\* more page request and there are never more than 50 of them; the loop goes
\* on only after a page that carried a next_cursor (it stops at a missing or
\* null one); with a source that carries one on every page the adapter is
\* left after exactly 50 page requests.
C12_PageLoopEnds ==
    /\ [](/\ page_fetches <= max_pages
          /\ page_count <= page_fetches
          /\ (main_pc = "loop" /\ proc_pc = "pages" /\ page_fetches > 0) =>
                (LatestPageHasCursor /\ page_count = page_fetches /\ ~Falsy(cursor))
          /\ (AfterPages /\ world[doi].endless) =>
                (page_fetches = max_pages /\ page_count = max_pages))
    /\ [][(proc_pc = "pages" /\ proc_pc' = "pages" /\ main_pc' = "loop") =>
             page_fetches' = page_fetches + 1]_vars

\* A source without end: the adapter returned after 50 page requests.
C12_Witness ==
    /\ main_pc = "loop"
    /\ proc_pc = "opencitations"
    /\ world[doi].endless
    /\ page_fetches = 50
    /\ page_count = 50
    /\ ~Falsy(cursor)

\* The loop was left by break, and by the end of unique_dois.
Interrupted == main_pc \in {"reporting", "saved"} /\ proc_pc # "idle"
RanToEnd == main_pc \in {"reporting", "saved"} /\ proc_pc = "idle"

Keys(m) == [k \in DOMAIN m |-> m[k].doi]
WrittenDois == [k \in DOMAIN writes |-> writes[k].doi]

\* C13: identifiers are processed in the order of unique_dois, one after the
\* other; when the loop has run to its end, results has an entry for every
\* identifier queried, its keys stand in the order the identifiers were
\* supplied in (an identifier supplied twice stands where it came first), and
\* an identifier nobody cites has the empty list.
C13_EveryIdentifierInOrder ==
    /\ WrittenDois = SubSeq(unique_dois, 1, Len(writes))
    /\ main_pc = "loop" =>
          Len(writes) = IF proc_pc = "idle" THEN main_i ELSE main_i - 1
    /\ RanToEnd =>
          /\ Len(writes) = Len(unique_dois)
          /\ Keys(results) = fromkeys(unique_dois)
          /\ \A k \in DOMAIN results :
                /\ results[k].doi \in Range(unique_dois)
                /\ world[results[k].doi] = ZeroWorld => results[k].citations = <<>>

\* A batch of two ran to its end: the first identifier, which nobody cites,
\* has the empty list, the second one three citations.
C13_Witness ==
    /\ RanToEnd
    /\ unique_dois = <<"10.1000/b", "10.1000/a">>
    /\ world["10.1000/b"] = ZeroWorld
    /\ Len(results) = 2
    /\ results[1] = Item("10.1000/b", <<>>)
    /\ results[2].doi = "10.1000/a"
    /\ Len(results[2].citations) = 3
    /\ \A k \in DOMAIN writes : writes[k].how = "completed"

\* A step of the except Exception clause of main.
FailStep ==
    /\ Len(writes') = Len(writes) + 1
    /\ writes'[Len(writes')].how = "failed"

\* C14: when the processing of an identifier fails, the empty list is
\* recorded for it, the entries of the other identifiers stay as they are
\* and where they are, and the loop goes on: with identifiers left the next
\* one is taken, and the loop is left only after the last one (or by an
\* interrupt).
C14_FailureRecordedBatchGoesOn ==
    /\ [][FailStep =>
            /\ \E k \in DOMAIN results' : results'[k] = Item(doi, <<>>)
            /\ \A k \in DOMAIN results : results[k].doi # doi => results'[k] = results[k]
            /\ Len(results') = IF \E k \in DOMAIN results : results[k].doi = doi
                               THEN Len(results) ELSE Len(results) + 1
            /\ main_pc' = "loop" /\ proc_pc' = "idle" /\ main_i' = main_i]_vars
    /\ []((main_pc = "loop" /\ proc_pc = "idle" /\ main_i < Len(unique_dois))
             => ENABLED Start)
    /\ [](RanToEnd => main_i = Len(unique_dois))

\* The second of three identifiers failed after the first was recorded with
\* three citations; the third was processed, and the first entry is as it was.
C14_Witness ==
    /\ RanToEnd
    /\ Len(writes) = 3
    /\ writes[1].how = "completed" /\ Len(writes[1].citations) = 3
    /\ writes[2].how = "failed" /\ writes[2].doi # writes[1].doi
    /\ writes[3].how = "completed" /\ writes[3].doi = writes[2].doi
    /\ results[1] = Item(writes[1].doi, writes[1].citations)
    /\ Len(results) = 2

\* results as the assignments made so far leave it.
RECURSIVE Replay(_)
Replay(ws) ==
    IF ws = <<>> THEN <<>>
    ELSE setitem(Replay(SubSeq(ws, 1, Len(ws) - 1)),
                 ws[Len(ws)].doi, ws[Len(ws)].citations)

\* C15 (as amended): an interrupt of the operator stops the loop at once.
\* The identifier in process at that time is not completed and nothing is
\* recorded for it; the results accumulated so far are all there.
C15_StopsAtOnce ==
    Interrupted =>
        /\ Len(writes) = main_i - 1
        /\ WrittenDois = SubSeq(unique_dois, 1, main_i - 1)
        /\ results = Replay(writes)

\* The loop was stopped while the second identifier was being enriched: one
\* assignment was made, the one of the first identifier.
C15_Witness ==
    /\ Interrupted
    /\ proc_pc = "enrich"
    /\ main_i = 2
    /\ unique_dois[1] # unique_dois[2]
    /\ Len(writes) = 1
    /\ results = <<Item(unique_dois[1], writes[1].citations)>>
    /\ Len(results[1].citations) = 3

\* C15 as claimed: when the loop is stopped by an interrupt, the identifier
\* that was in process has been completed and recorded.
C15_Original ==
    Interrupted =>
        /\ Len(writes) = main_i
        /\ \E k \in DOMAIN results : results[k].doi = doi

\* A step of the except KeyboardInterrupt clause of main.
InterruptStep == main_pc = "loop" /\ proc_pc # "idle" /\ main_pc' = "reporting"

\* The stages of process_single_doi: in the work lookup, between two page
\* requests, in the citation index adapter, at the merge, in the enrichment,
\* at the return.
Stages == {"openalex", "pages", "opencitations", "merge", "enrich", "return"}

\* C16: make_request lets a KeyboardInterrupt of one of its attempts or sleeps
\* pass, and the operator can interrupt at every stage of an identifier's
\* pipeline; the interrupt leaves results as it is and takes main to the
\* report and the saving, after which nothing is processed or written (an
\* identifier is taken only when every one before it has been recorded); the
\* keys of results are then the identifiers processed before the interrupted
\* one, and the interrupted one has no entry unless it was one of them.
C16_InterruptAborts ==
    /\ [](OnException("KeyboardInterrupt").raised)
    /\ []((main_pc = "loop" /\ proc_pc \in Stages) => ENABLED Interrupt)
    /\ [][InterruptStep =>
            /\ results' = results /\ writes' = writes
            /\ main_i' = main_i /\ proc_pc' = proc_pc]_vars
    /\ [][main_i' # main_i => (main_pc = "loop" /\ Len(writes) = main_i)]_vars
    /\ [][Interrupted =>
            /\ main_pc = "reporting" /\ main_pc' = "saved"
            /\ UNCHANGED <<results, writes, main_i, proc_pc>>]_vars
    /\ [](Interrupted =>
            /\ Range(Keys(results)) = {unique_dois[k] : k \in 1 .. main_i - 1}
            /\ (\A k \in 1 .. main_i - 1 : unique_dois[k] # doi)
                  => \A k \in DOMAIN results : results[k].doi # doi)

\* The first identifier was interrupted between two page requests, after a
\* page that gave citations: results is empty and has been saved so.
C16_Witness ==
    /\ Interrupted
    /\ main_pc = "saved"
    /\ proc_pc = "pages"
    /\ page_fetches = 1
    /\ Len(world[doi].pages[1].body[2].results) > 0
    /\ main_i = 1
    /\ results = <<>>

\* A step of the loop of enrich_citation_metadata, and what the lookup of
\* the identifier in process finds.
EnrichStep == proc_pc = "enrich" /\ enrich_i' = enrich_i + 1
Found == get_metadata_from_crossref(make_request(Served(world[doi].metadata, FALSE)))

\* C17: an iteration of enrich_citation_metadata changes no record but the
\* one it is at, and of that one only fields that are empty: a title, an
\* author list or a year that is there stays, doi and source stay, and an
\* empty field gets what the lookup found for it; when the lookup failed or
\* found nothing, no field changes.
C17_EnrichFillsOnlyEmpty ==
    [][EnrichStep =>
         /\ Len(merged_citations') = Len(merged_citations)
         /\ \A k \in DOMAIN merged_citations :
               LET old == merged_citations[k]
                   new == merged_citations'[k]
               IN /\ new.doi = old.doi
                  /\ new.source = old.source
                  /\ old.title # "" => new.title = old.title
                  /\ old.authors # <<>> => new.authors = old.authors
                  /\ old.year # "" => new.year = old.year
                  /\ IF k # enrich_i + 1 THEN new = old
                     ELSE /\ old.title = "" => new.title = Found.title
                          /\ old.authors = <<>> => new.authors = Found.authors
                          /\ old.year = "" => new.year = Found.year
         /\ Found = NoMetadata => merged_citations' = merged_citations]_vars

\* The record of "10.1234/abc3" came with the title "Y" only: the enrichment
\* left the title and filled in two authors and the year 1999.
C17_Witness ==
    /\ proc_pc \in {"enrich", "return"}
    /\ \E k \in 1 .. enrich_i :
          merged_citations[k] =
             Citation(Doi_C, "Y", <<"Zoe Zed", "Yu">>, "1999", "OpenAlex")

\* C18: no caller issues a fetch right after a fetch returned: a delay was
\* slept between the two.
C18_DelayBetweenFetches == last_fetch # "none" => prev_call # "fetch"

\* How often d stands in a sequence of identifiers.
Count(d, ds) == Cardinality({k \in DOMAIN ds : ds[k] = d})

\* C19 (as amended): results is assigned to by main only, once per pass of
\* its loop, when process_single_doi has returned or raised; after a loop
\* that ran to its end the assignments are, in their order, the identifiers
\* of unique_dois.  An identifier of a CSV file (deduplicated) is written
\* exactly once; an identifier a depositor report names n times is processed
\* and written n times, each assignment replacing the entry of the one before.
C19_OneWritePerPass ==
    /\ [][results' # results =>
            /\ Len(writes') = Len(writes) + 1
            /\ main_pc = "loop" /\ proc_pc \in Stages /\ proc_pc' = "idle"]_vars
    /\ [][writes' # writes =>
            /\ writes' = Append(writes, Write(writes'[Len(writes')].how,
                                              writes'[Len(writes')].citations))
            /\ \/ proc_pc = "return" /\ writes'[Len(writes')].how = "completed"
               \/ proc_pc \in Stages /\ writes'[Len(writes')] = Write("failed", <<>>)
            /\ results' = setitem(results, doi, writes'[Len(writes')].citations)]_vars
    /\ [](results = Replay(writes))
    /\ [](RanToEnd =>
            /\ WrittenDois = unique_dois
            /\ \A d \in Queried : Count(d, WrittenDois) = Count(d, unique_dois)
            /\ source_kind = "csv" => \A d \in Range(unique_dois) : Count(d, WrittenDois) = 1)

\* A depositor report named "10.1000/a" twice: it was written twice, and
\* results has its two keys.
C19_Witness ==
    /\ RanToEnd
    /\ source_kind = "pubid"
    /\ unique_dois = <<"10.1000/a", "10.1000/b", "10.1000/a">>
    /\ Count("10.1000/a", WrittenDois) = 2
    /\ Keys(results) = <<"10.1000/a", "10.1000/b">>

\* C19 as claimed: after a loop that ran to its end, every identifier queried
\* has been written exactly once.
C19_Original ==
    RanToEnd => \A d \in Range(unique_dois) : Count(d, WrittenDois) = 1

\* The work lookup for d fails (a null answer) or reports no citation: a
\* count of 0, or none at all.
NoCitationsReported(d) ==
    \/ world[d].work = NotFound
    \/ /\ world[d].work.status = 200
       /\ Doc(world[d].work.body).has # {}
       /\ ~IsNull(Doc(world[d].work.body), "id")
       /\ \/ IsMissing(Doc(world[d].work.body), "cited_by_count")
          \/ /\ ~IsNull(Doc(world[d].work.body), "cited_by_count")
             /\ Doc(world[d].work.body).cited_by_count = 0

\* The citation index has nothing for d: a null answer or an empty list.
NoCitingReported(d) == world[d].cites \in {NotFound, Ok(<<>>)}

PageData(n) == make_request(<<PageAnswer(world[doi], n)>>)

\* The answer is null, a payload without results, or a page with an item
\* that raises while it is converted.
NullPage(n) == PageData(n) = None
NoResults(n) == ~NullPage(n) /\ IsMissing(Doc(PageData(n)), "results")
RaisingItem(n) ==
    /\ ~NullPage(n) /\ ~NoResults(n)
    /\ \E k \in DOMAIN Doc(PageData(n)).results : Doc(PageData(n)).results[k].null
PageFails(n) == NullPage(n) \/ NoResults(n) \/ RaisingItem(n)

\* The items of a page before its first item that raises.
RECURSIVE BeforeRaise(_)
BeforeRaise(works) ==
    IF works = <<>> \/ Head(works).null THEN <<>>
    ELSE <<Head(works)>> \o BeforeRaise(Tail(works))

\* The records of the first k pages, which were fetched and converted whole.
RECURSIVE Collected(_)
Collected(k) ==
    IF k = 0 THEN <<>>
    ELSE convert_works(Collected(k - 1), Doc(PageData(k)).results).citations

\* The records collected when page request k + 1 fails: those of the first k
\* pages and, of a page with an item that raises, those of the items before it.
CollectedSoFar(k) ==
    IF RaisingItem(k + 1)
    THEN convert_works(Collected(k), BeforeRaise(Doc(PageData(k + 1)).results)).citations
    ELSE Collected(k)

\* The page loop of the current identifier was left by a page request that
\* failed after k >= 1 pages, and process_single_doi is past the adapter.
PartialPages ==
    /\ main_pc = "loop"
    /\ proc_pc \in {"opencitations", "merge", "enrich", "return"}
    /\ page_count >= 1
    /\ page_fetches = page_count + 1
    /\ PageFails(page_fetches)

\* A page request that fails after k >= 1 pages is being made.
FailingPageStep ==
    /\ main_pc = "loop" /\ proc_pc = "pages"
    /\ page_count >= 1
    /\ page_fetches' = page_fetches + 1
    /\ PageFails(page_fetches + 1)

\* C22: when, after k >= 1 pages fetched successfully, a page fetch of the
\* OpenAlex adapter returns null, a payload without results, or a page with an
\* item that raises on conversion, the adapter stops paginating and returns the
\* records collected so far (nothing is dropped, nothing is raised, no failure
\* is recorded), and process_single_doi goes on with that list: the citation
\* index is queried next, the merge takes the partial list as its first
\* argument, the merged records are enriched, and what is recorded holds every
\* identifier of the partial list.
C22_PartialPagesKept ==
    /\ [](PartialPages =>
            /\ openalex_citations = CollectedSoFar(page_count)
            /\ proc_pc \in {"enrich", "return"} =>
                  DoiSeq(merged_citations) =
                     DoiSeq(merge_citations(openalex_citations, opencitations_citations)))
    /\ [][FailingPageStep =>
            /\ main_pc' = "loop" /\ proc_pc' = "opencitations"
            /\ page_count' = page_count
            /\ openalex_citations' = CollectedSoFar(page_count)
            /\ writes' = writes /\ results' = results]_vars
    /\ [][(PartialPages /\ main_pc' = "loop" /\ proc_pc' # "idle") =>
            /\ openalex_citations' = openalex_citations
            /\ proc_pc = "opencitations" =>
                  proc_pc' = "merge" /\ last_fetch' = "citing"
            /\ proc_pc = "merge" =>
                  /\ proc_pc' \in {"enrich", "return"}
                  /\ merged_citations' =
                        merge_citations(CollectedSoFar(page_count), opencitations_citations')
            /\ proc_pc = "enrich" =>
                  proc_pc' \in {"enrich", "return"} /\ enrich_i' = enrich_i + 1]_vars
    /\ [][(PartialPages /\ proc_pc = "return" /\ writes' # writes) =>
            /\ writes' = Append(writes, Write("completed", merged_citations))
            /\ \A k \in DOMAIN openalex_citations :
                  HasKey(merged_citations, openalex_citations[k].doi)]_vars

\* After one whole page, the second page had an item that raised after a
\* record was taken from it; the adapter returned the records of both, and the
\* citation index, the merge and the enrichment of every merged record followed.
C22_Witness ==
    /\ PartialPages /\ proc_pc = "return"
    /\ RaisingItem(page_fetches)
    /\ Collected(page_count) # <<>>
    /\ Len(openalex_citations) > Len(Collected(page_count))
    /\ last_fetch \in {"citing", "metadata"}
    /\ opencitations_citations # <<>>
    /\ merged_citations # <<>> /\ enrich_i = Len(merged_citations)

-----------------------------------------------------------------------------
(* read_dois_from_crossref_depositor_report.  The report is fetched by     *)
(* make_text_request, which runs the retry loop of make_request and        *)
(* returns response.text.                                                  *)

make_text_request(script) == attempts(0, script)

\* The characters str.splitlines() breaks a line at.
IsLineBreak(c) == c \in {10, 11, 12, 13, 28, 29, 30, 133, 8232, 8233}

\* The characters of s before its first line break.
RECURSIVE LineLen(_)
LineLen(s) == IF s = <<>> \/ IsLineBreak(s[1]) THEN 0 ELSE 1 + LineLen(Tail(s))

\* str.splitlines(): the lines without their breaks; "\r\n" is one break,
\* and a break at the end of the text opens no further line.
RECURSIVE splitlines(_)
splitlines(s) ==
    IF s = <<>> THEN <<>>
    ELSE LET n   == LineLen(s)
             brk == IF n = Len(s) THEN 0
                    ELSE IF s[n + 1] = 13 /\ n + 2 <= Len(s) /\ s[n + 2] = 10 THEN 2
                    ELSE 1
         IN <<SubSeq(s, 1, n)>> \o splitlines(SubSeq(s, n + brk + 1, Len(s)))

\* The characters of s before its first white space.
RECURSIVE ColumnLen(_)
ColumnLen(s) == IF s = <<>> \/ IsSpace(s[1]) THEN 0 ELSE 1 + ColumnLen(Tail(s))

\* line.split(None, 1)[0]
first_col(line) ==
    LET l == lstrip(line)
    IN SubSeq(l, 1, ColumnLen(l))

\* line.upper().startswith("DOI")
is_header(line) == startswith(upper(line), <<68, 79, 73>>)

\* One iteration of  for line in text.splitlines(): what dois is after it.
read_line(dois, l) ==
    LET line == strip(l)
    IN IF line = <<>> THEN dois
       ELSE IF is_header(line) THEN dois
       ELSE LET doi_ == normalize_doi(first_col(line))
            IN IF ~Falsy(doi_) THEN Append(dois, doi_) ELSE dois

-----------------------------------------------------------------------------
(* The reports the endpoint serves.                                        *)

MaxLines == 2

Str_10_5678_x == <<49, 48, 46, 53, 54, 55, 56, 47, 120>>            \* "10.5678/x"

Line_Empty    == <<>>
Line_Blank    == <<32, 9>>                                          \* " \t"
Line_Header   == <<68, 79, 73, 9, 84, 105, 116, 108, 101>>          \* "DOI\tTitle"
Line_Lower    == <<100, 111, 105, 32, 99, 111, 117, 110, 116>>      \* "doi count"
Line_Plain    == Str_10_1234_AbC \o <<9, 55>>                       \* "10.1234/AbC\t7"
Line_Indented == <<32, 32>> \o Str_10_1234_abc                      \* "  10.1234/abc"
Line_Other    == Str_10_5678_x \o <<32>>                            \* "10.5678/x "
Line_Url      == Str_https \o Str_10_1234_abc \o <<32, 120>>        \* "https://doi.org/10.1234/abc x"
Line_Prefixed == prefixes[5] \o Str_10_1234_abc \o <<32, 55>>       \* "doi:10.1234/abc 7"
Line_Invalid  == Str_10_1_abc \o <<32>> \o Str_10_1234_abc          \* "10.1/abc 10.1234/abc"

ReportLines ==
    { Line_Empty, Line_Blank, Line_Header, Line_Lower, Line_Plain, Line_Indented,
      Line_Other, Line_Url, Line_Prefixed, Line_Invalid }

LineBreaks == { <<10>>, <<13, 10>> }      \* "\n", "\r\n"

\* "sep".join(ls)
join(sep, ls) ==
    Flatten([k \in DOMAIN ls |-> IF k = 1 THEN ls[k] ELSE sep \o ls[k]])

\* Reports of up to MaxLines lines, with or without a break after the last.
ReportTexts ==
    UNION { { join(sep, ls), join(sep, ls) \o sep } :
              ls \in SeqsUpTo(ReportLines, MaxLines), sep \in LineBreaks }

ServerError == Outcome(500, "", <<>>)

\* What the endpoint serves over the attempts of one call: the report (at
\* once, or after a 429), no report (404), or an error at every attempt.
ReportServed ==
    { <<Outcome(200, "", t)>> : t \in ReportTexts }
      \cup { <<TooMany, Outcome(200, "", Line_Plain \o <<10>> \o Line_Prefixed)>>,
             <<NotFound>>,
             <<ServerError, ServerError, ServerError>> }

ReportInit ==
    /\ served \in ReportServed
    /\ text = None
    /\ lines = <<>>
    /\ line_i = 0
    /\ report_dois = <<>>
    /\ report_pc = "fetch"
    /\ MergeIdle
    /\ NormIdle
    /\ FetchIdle
    /\ PipeIdle

\* text = make_text_request(...); if not text: return []; dois = []
ReportFetch ==
    /\ report_pc = "fetch"
    /\ text' = make_text_request(served)
    /\ IF Falsy(text')
       THEN /\ report_pc' = "returned"
            /\ lines' = lines
       ELSE /\ report_pc' = "lines"
            /\ lines' = splitlines(text')
    /\ UNCHANGED <<served, line_i, report_dois, merge_vars, norm_vars, fetch_vars,
                   pipe_vars>>

\* One iteration of the loop over the lines.
ReportLine ==
    /\ report_pc = "lines"
    /\ line_i < Len(lines)
    /\ line_i' = line_i + 1
    /\ report_dois' = read_line(report_dois, lines[line_i + 1])
    /\ UNCHANGED <<served, text, lines, report_pc, merge_vars, norm_vars, fetch_vars,
                   pipe_vars>>

\* return dois
ReportReturn ==
    /\ report_pc = "lines"
    /\ line_i = Len(lines)
    /\ report_pc' = "returned"
    /\ UNCHANGED <<served, text, lines, line_i, report_dois, merge_vars, norm_vars,
                   fetch_vars, pipe_vars>>

ReportNext == ReportFetch \/ ReportLine \/ ReportReturn

SpecReport == ReportInit /\ [][ReportNext]_vars

-----------------------------------------------------------------------------
(* Claims about the Depositor-Report adapter.                              *)

\* The normalized first columns of the lines of ls that are not empty and
\* whose first column is a valid identifier, in the order of ls, a value
\* that occurs again being listed again.
RECURSIVE ValidFirstColumns(_)
ValidFirstColumns(ls) ==
    IF ls = <<>> THEN <<>>
    ELSE LET d == IF strip(Head(ls)) = <<>> THEN None
                  ELSE normalize_doi(first_col(Head(ls)))
         IN (IF d # None THEN <<d>> ELSE <<>>) \o ValidFirstColumns(Tail(ls))

\* C21: the Depositor-Report adapter returns, in report order and without
\* deduplication, the normalized first column of every non-empty, non-header
\* line whose first column is a valid identifier, a first column written with
\* a known prefix such as "doi:" included (so every non-empty line with a
\* valid first column counts); lines with an invalid first column are
\* skipped, and a null or empty report gives the empty list.
C21_ValidFirstColumnsInOrder ==
    report_pc = "returned" =>
        report_dois = IF Falsy(text) THEN <<>>
                      ELSE ValidFirstColumns(splitlines(text))

====
